---- MODULE Spec2Model ----
(***************************************************************************)
(* Model of the persistent-memory pool manager of the kernel:              *)
(*   kernel/src/vmem.rs        ReserveRegion (free-range index), VMM       *)
(*   kernel/src/pmem/table.rs  on-device pool table (Table, Inner, Entry)  *)
(*   kernel/src/pmem.rs        Manager (create/get/destroy/resize pool)    *)
(*   kernel/src/nfit.rs        NfitEntryIter (entries of the NFIT)         *)
(*   kernel/src/pmem/device.rs get_devices (NVDIMMs found in the NFIT)     *)
(*   kernel/src/pmem/ffi.rs    fwrite, truncate (C interface)              *)
(* Addresses, offsets and lengths are byte values.  A BTreeMap<u64,u64> is *)
(* a function with a finite domain of keys; Rust's Option is a record with *)
(* a field `some`.  A panic (failed assert!, unwrap of None, arithmetic    *)
(* overflow of the debug build) halts the kernel: it sets `panic`.         *)
(***************************************************************************)
EXTENDS Integers, Sequences, FiniteSets, TLC

(***************************************************************************)
(* Bounds of the model and constants of the program.                       *)
(***************************************************************************)
\* Size4KiB::SIZE, the size of pool pages and frames.
PAGE_SIZE == 4096
HalfPage == PAGE_SIZE \div 2
\* Inner::magic_number of an initialised table.
MAGIC_NUMBER == 39064
\* Longest pool name in bytes.
NAME_LEN == 30
\* Slots of the entry array.  The program has (4096 - 2) / 46 = 89; the
\* model keeps the array small so that "array full" and "empty slot before
\* a live slot" are reached.
ENTRY_COUNT == 2
\* Pages of a device, header page included: device.size = DevPages * PAGE_SIZE.
DevPages == 4
\* Pages of virtual address space that are unmapped at boot.
VirtPages == 6
\* Pool sizes requested are the multiples of half a page up to this many halves.
MaxHalfPages == 3
\* Number of NVDIMMs found in the NFIT.
NumDevices == 2
\* Number of power losses in a run.
MaxPowerLoss == 1

\* 10 * Size4KiB::SIZE, the first virtual address the VMM hands out.
FIRST_ADDRESS == 10 * PAGE_SIZE

Handles == 1..NumDevices
\* NfitDevice.phys_addr and NfitDevice.size of the device with a handle.  The
\* first device is a whole number of pages long; the others are two pages
\* shorter and end half a page after a page boundary.
DevicePhysAddr(h) == h * 1024 * PAGE_SIZE
DeviceSize(h) ==
    IF h = 1 THEN DevPages * PAGE_SIZE
    ELSE (DevPages - 2) * PAGE_SIZE + (PAGE_SIZE \div 2)

\* Pool names given by callers; LongName stands for a name of 31 bytes.
LongName == "long_name_of_thirty_one_bytes__"
Names == {"a", "b"}
AllNames == Names \cup {LongName}
NameLength(n) == IF n = LongName THEN NAME_LEN + 1 ELSE 1
Sizes == {k * (PAGE_SIZE \div 2) : k \in 0..MaxHalfPages}

(***************************************************************************)
(* Helpers.                                                                *)
(***************************************************************************)
Max(a, b) == IF a >= b THEN a ELSE b
SetMin(S) == CHOOSE x \in S : \A y \in S : x <= y
\* x86_64::align_up for a power-of-two alignment.
align_up(addr, align) == ((addr + align - 1) \div align) * align

\* BTreeMap: the empty map, insert (replacing the value of a present key), remove.
EmptyMap == [k \in {} |-> 0]
MapPut(m, k, v) == [x \in (DOMAIN m) \cup {k} |-> IF x = k THEN v ELSE m[x]]
MapDel(m, k) == [x \in (DOMAIN m) \ {k} |-> m[x]]
\* .collect() of a sequence of <<key, value>> pairs into a BTreeMap: a later
\* pair replaces an earlier one with the same key.
RECURSIVE CollectMap(_, _)
CollectMap(pairs, m) ==
    IF pairs = << >> THEN m
    ELSE CollectMap(Tail(pairs), MapPut(m, Head(pairs)[1], Head(pairs)[2]))

(***************************************************************************)
(* ReserveRegion: the free-range index, a BTreeMap from size to start.     *)
(* Results of calls are handed on as operator parameters.                  *)
(***************************************************************************)
\* The free ranges of an index as a set of <<start, end>>.
FreeRanges(fr) == {<<fr[size], fr[size] + size>> : size \in DOMAIN fr}

\* The loop condition of reserve_range: the range keyed `size` fits.
Fits(fr, size, needed_size, alignment) ==
    needed_size + (align_up(fr[size], alignment) - fr[size]) <= size

\* The body of the loop of reserve_range for the range (size, addr) taken:
\* remove it, put back the remainder after the reservation, then the padding
\* before it.
ReserveSplit(fr, size, addr, aligned, needed_size) ==
    [panic |-> FALSE, some |-> TRUE, start |-> aligned, end |-> aligned + needed_size,
     free |-> IF aligned # addr
              THEN MapPut(IF size - needed_size - (aligned - addr) > 0
                          THEN MapPut(MapDel(fr, size),
                                      size - needed_size - (aligned - addr),
                                      aligned + needed_size)
                          ELSE MapDel(fr, size),
                          aligned - addr, addr)
              ELSE IF size - needed_size - (aligned - addr) > 0
                   THEN MapPut(MapDel(fr, size),
                               size - needed_size - (aligned - addr),
                               aligned + needed_size)
                   ELSE MapDel(fr, size)]

\* The loop of reserve_range runs over the keys in ascending order and
\* returns at the first range that fits.
ReserveFirst(fr, fitting, needed_size, alignment) ==
    IF fitting = {}
    THEN [panic |-> FALSE, some |-> FALSE, start |-> 0, end |-> 0, free |-> fr]
    ELSE ReserveSplit(fr, SetMin(fitting), fr[SetMin(fitting)],
                      align_up(fr[SetMin(fitting)], alignment), needed_size)

reserve_range(fr, needed_size, alignment) ==
    IF needed_size = 0
    THEN [panic |-> TRUE, some |-> FALSE, start |-> 0, end |-> 0, free |-> fr]
    ELSE ReserveFirst(fr, {size \in DOMAIN fr : Fits(fr, size, needed_size, alignment)},
                      needed_size, alignment)

\* The index as a sequence of <<addr, size>> sorted by addr (ties by size).
RECURSIVE SortRegions(_)
SortRegions(S) ==
    IF S = {} THEN << >>
    ELSE LET first == CHOOSE r \in S : \A q \in S :
                          r[1] < q[1] \/ (r[1] = q[1] /\ r[2] <= q[2])
         IN  <<first>> \o SortRegions(S \ {first})

RegionList(fr) == SortRegions({<<fr[size], size>> : size \in DOMAIN fr})

\* The fold of release_range: a range that starts where the last one ends
\* extends it.  Ranges are <<start, end>>.
RECURSIVE Coalesce(_, _)
Coalesce(ranges, acc) ==
    IF ranges = << >> THEN acc
    ELSE IF Len(acc) > 0 /\ acc[Len(acc)][2] = Head(ranges)[1]
    THEN Coalesce(Tail(ranges),
                  [acc EXCEPT ![Len(acc)] = <<acc[Len(acc)][1], Head(ranges)[2]>>])
    ELSE Coalesce(Tail(ranges), Append(acc, Head(ranges)))

\* A free range of the sorted list contains the address.
Contains(regions, i, region_addr) ==
    /\ regions[i][1] <= region_addr
    /\ region_addr < regions[i][1] + regions[i][2]

\* The comparator of the binary search is monotone on the sorted list unless
\* a range that contains the address precedes one that ends at or before it.
SearchIsMonotone(regions, region_addr) ==
    \A i, j \in 1..Len(regions) :
        (i < j /\ Contains(regions, i, region_addr))
        => ~(regions[j][1] + regions[j][2] <= region_addr)

\* The binary search of release_range answers Ok when a free range contains
\* region_addr.  On a list where the comparator is not monotone the answer
\* of binary_search_by is unspecified: `nd` is the answer then.
SearchFinds(regions, region_addr, nd) ==
    IF ~(\E i \in 1..Len(regions) : Contains(regions, i, region_addr)) THEN FALSE
    ELSE IF SearchIsMonotone(regions, region_addr) THEN TRUE
    ELSE nd

\* free_regions.clear() and the for_each of release_range over the merged
\* ranges: each is entered under its size.
RangesToMap(merged) ==
    CollectMap([k \in 1..Len(merged) |-> <<merged[k][2] - merged[k][1], merged[k][1]>>],
               EmptyMap)

\* regions.insert(i, ..) at the index the search answers, then the fold.
InsertAndMerge(regions, i, start, end) ==
    RangesToMap(Coalesce([k \in 1..(Len(regions) + 1) |->
                             IF k <= i THEN <<regions[k][1], regions[k][1] + regions[k][2]>>
                             ELSE IF k = i + 1 THEN <<start, end>>
                             ELSE <<regions[k - 1][1], regions[k - 1][1] + regions[k - 1][2]>>],
                         << >>))

ReleaseInto(fr, regions, start, end, nd) ==
    IF SearchFinds(regions, start, nd)
    THEN [panic |-> FALSE, ok |-> FALSE, free |-> fr]
    ELSE [panic |-> FALSE, ok |-> TRUE,
          free |-> InsertAndMerge(regions,
                                  Cardinality({k \in 1..Len(regions) : regions[k][1] <= start}),
                                  start, end)]

release_range(fr, start, end, nd) ==
    IF end - start <= 0
    THEN [panic |-> TRUE, ok |-> FALSE, free |-> fr]
    ELSE ReleaseInto(fr, RegionList(fr), start, end, nd)

(***************************************************************************)
(* Entry and Inner: the persisted header page of a device.                 *)
(***************************************************************************)
\* Entry::default(): all bytes zero.  A name is the bytes before the first NUL.
EmptyEntry == [offset |-> 0, length |-> 0, name |-> ""]

real_len(entry) == align_up(entry.length, PAGE_SIZE)
frames(entry) == real_len(entry) \div PAGE_SIZE

Inner_is_valid(inner) == inner.magic_number = MAGIC_NUMBER

IsLive(entry) == entry.name # ""

\* Inner::entries: the live entries in array order, numbered after the filter.
Enumerate(live) == [k \in 1..Len(live) |-> [index |-> k - 1, inner |-> live[k]]]

Inner_entries(inner) == Enumerate(SelectSeq(inner.entries, IsLive))

\* .find(|entry| entry.name() == name) over entries()
FindFirst(iter, hits) ==
    IF hits = {} THEN [some |-> FALSE, index |-> 0, inner |-> EmptyEntry]
    ELSE [some |-> TRUE, index |-> iter[SetMin(hits)].index,
          inner |-> iter[SetMin(hits)].inner]

FindByName(iter, name) ==
    FindFirst(iter, {k \in 1..Len(iter) : iter[k].inner.name = name})

(***************************************************************************)
(* A table is [inner, free_regions, nv]: `inner` is the header page as the *)
(* CPU sees it (stores land here), `nv` is what has reached the            *)
(* persistence domain for certain, `free_regions` the in-memory index.     *)
(* ll::persist_obj(obj) copies the bytes of obj from `inner` to `nv`.      *)
(***************************************************************************)
\* ll::persist_obj(entry, true) for the entry of a slot (1-based here).
persist_entry(t, slot) ==
    [t EXCEPT !.nv.entries[slot] = t.inner.entries[slot]]

\* ll::persist_obj(self, true) with self: &mut Inner, the whole page.
persist_page(t) == [t EXCEPT !.nv = t.inner]

\* Inner_init with a slip: the page is written but not persisted.
Inner_init_NotPersisted(t) ==
    [t EXCEPT !.inner = [magic_number |-> MAGIC_NUMBER,
                         entries |-> [i \in 1..ENTRY_COUNT |-> EmptyEntry]]]

\* Inner::init
Inner_init(t) ==
    persist_page([t EXCEPT !.inner = [magic_number |-> MAGIC_NUMBER,
                                      entries |-> [i \in 1..ENTRY_COUNT |-> EmptyEntry]]])

\* The stores of Inner::insert into a slot (1-based here).
Inner_insert_stores(t, slot, name, offset, length) ==
    [t EXCEPT !.inner.entries[slot] =
                  [offset |-> offset, length |-> length, name |-> name]]

\* Inner::insert into the first slot with an empty name, then the barrier;
\* nothing when no slot is empty.
InsertAt(t, empty, name, offset, length) ==
    IF empty = {} THEN t
    ELSE persist_entry(Inner_insert_stores(t, SetMin(empty), name, offset, length),
                       SetMin(empty))

Inner_insert(t, name, offset, length) ==
    InsertAt(t, {i \in 1..ENTRY_COUNT : ~IsLive(t.inner.entries[i])}, name, offset, length)

\* The stores of Inner::remove; index is 0-based as in the source.
Inner_remove_stores(t, index) ==
    [t EXCEPT !.inner.entries[index + 1] = EmptyEntry]

\* Inner::remove
Inner_remove(t, index) ==
    IF index < ENTRY_COUNT
    THEN [ok |-> TRUE, table |-> persist_entry(Inner_remove_stores(t, index), index + 1)]
    ELSE [ok |-> FALSE, table |-> t]

\* Table::new on the header page of a device of `size` bytes whose persisted
\* content is `page`.  `taken` is <<position in entries(), start, end>>
\* sorted by start; sort_unstable_by leaves the order of ranges with equal
\* starts open: they keep their array order when `stable`, and are reversed
\* otherwise.  A usable range whose end lies before its start overflows the
\* subtraction end - start, which panics.
RECURSIVE SortTaken(_, _)
SortTaken(S, stable) ==
    IF S = {} THEN << >>
    ELSE LET first == CHOOSE r \in S : \A q \in S :
                          \/ r[2] < q[2]
                          \/ r[2] = q[2] /\ (IF stable THEN r[1] <= q[1] ELSE r[1] >= q[1])
         IN  <<first>> \o SortTaken(S \ {first}, stable)

RECURSIVE UsableOf(_, _, _, _)
UsableOf(taken, current, size, acc) ==
    IF taken = << >>
    THEN IF current < size THEN Append(acc, <<current, size>>) ELSE acc
    ELSE UsableOf(Tail(taken), Head(taken)[3], size, Append(acc, <<current, Head(taken)[2]>>))

Taken(iter, stable) ==
    SortTaken({<<k, iter[k].inner.offset, iter[k].inner.offset + real_len(iter[k].inner)>> :
               k \in 1..Len(iter)}, stable)

IsNonEmpty(r) == r[2] - r[1] > 0

CollectUsable(kept) ==
    CollectMap([k \in 1..Len(kept) |-> <<kept[k][2] - kept[k][1], kept[k][1]>>], EmptyMap)

RecoverFree(page, usable) ==
    IF \E k \in 1..Len(usable) : usable[k][2] < usable[k][1]
    THEN [panic |-> TRUE,
          table |-> [inner |-> page, nv |-> page, free_regions |-> EmptyMap]]
    ELSE [panic |-> FALSE,
          table |-> [inner |-> page, nv |-> page,
                     free_regions |-> CollectUsable(SelectSeq(usable, IsNonEmpty))]]

Table_new(size, page, stable) ==
    IF Inner_is_valid(page)
    THEN RecoverFree(page,
                     UsableOf(Taken(Inner_entries(page), stable), PAGE_SIZE, size, << >>))
    ELSE [panic |-> size < PAGE_SIZE,
          table |-> [Inner_init([inner |-> page, nv |-> page, free_regions |-> EmptyMap])
                     EXCEPT !.free_regions =
                         IF size - PAGE_SIZE > 0
                         THEN MapPut(EmptyMap, size - PAGE_SIZE, PAGE_SIZE)
                         ELSE EmptyMap]]

(***************************************************************************)
(* Table::allocate, deallocate, reallocate, get.                           *)
(***************************************************************************)
LiveCount(t) == Len(Inner_entries(t.inner))

\* allocate after reserve_range has answered r.
AllocateReserved(t, r, name, size) ==
    IF ~r.some
    THEN [some |-> FALSE, offset |-> 0, table |-> t]
    ELSE [some |-> TRUE, offset |-> r.start,
          table |-> Inner_insert([t EXCEPT !.free_regions = r.free], name, r.start, size)]

\* Table_allocate with a slip: the range is reserved before the name and
\* the entry count are looked at.
Table_allocate_ReservesFirst(t, name, size) ==
    IF NameLength(name) > NAME_LEN \/ LiveCount(t) = ENTRY_COUNT
    THEN [some |-> FALSE, offset |-> 0,
          table |-> [t EXCEPT !.free_regions =
                         reserve_range(t.free_regions, Max(size, PAGE_SIZE), PAGE_SIZE).free]]
    ELSE AllocateReserved(t, reserve_range(t.free_regions, Max(size, PAGE_SIZE), PAGE_SIZE),
                          name, size)

Table_allocate(t, name, size) ==
    IF NameLength(name) > NAME_LEN \/ LiveCount(t) = ENTRY_COUNT
    THEN [some |-> FALSE, offset |-> 0, table |-> t]
    ELSE AllocateReserved(t, reserve_range(t.free_regions, Max(size, PAGE_SIZE), PAGE_SIZE),
                          name, size)

\* DeallocateReleased with a slip: the range is released but the entry is
\* not removed.
DeallocateReleased_KeepsEntry(t, rel, index) ==
    IF rel.panic THEN [panic |-> TRUE, ok |-> FALSE, table |-> t]
    ELSE IF rel.ok
    THEN [panic |-> FALSE, ok |-> TRUE, table |-> [t EXCEPT !.free_regions = rel.free]]
    ELSE [panic |-> FALSE, ok |-> FALSE, table |-> t]

\* deallocate after release_range has answered rel.
DeallocateReleased(t, rel, index) ==
    IF rel.panic THEN [panic |-> TRUE, ok |-> FALSE, table |-> t]
    ELSE IF rel.ok
    THEN [panic |-> FALSE, ok |-> TRUE,
          table |-> Inner_remove([t EXCEPT !.free_regions = rel.free], index).table]
    ELSE [panic |-> FALSE, ok |-> FALSE, table |-> t]

DeallocateEntry(t, entry, index, nd) ==
    DeallocateReleased(t, release_range(t.free_regions, entry.offset,
                                        entry.offset + real_len(entry), nd), index)

Table_deallocate(t, index, nd) ==
    IF index >= ENTRY_COUNT
    THEN [panic |-> FALSE, ok |-> FALSE, table |-> t]
    ELSE DeallocateEntry(t, t.inner.entries[index + 1], index, nd)

\* The stores of reallocate to the entry; ll::persist_obj(self, true) is
\* given the Table (a pointer and a BTreeMap in kernel memory), so no byte
\* of the header page is covered by it.
Table_reallocate_stores(t, index, offset, length) ==
    [t EXCEPT !.inner.entries[index + 1].offset = offset,
              !.inner.entries[index + 1].length = length]

\* reallocate after release_range of the old range has answered rel (whose
\* ok is ignored).
ReallocateReleased(t, rel, index, start, needed_size) ==
    IF rel.panic
    THEN [panic |-> TRUE, ok |-> FALSE, table |-> t]
    ELSE [panic |-> FALSE, ok |-> TRUE,
          table |-> Table_reallocate_stores([t EXCEPT !.free_regions = rel.free],
                                            index, start, needed_size)]

\* reallocate after reserve_range has answered res.
ReallocateReserved(t, res, entry, index, needed_size, nd) ==
    IF ~res.some
    THEN [panic |-> FALSE, ok |-> FALSE, table |-> t]
    ELSE ReallocateReleased(t, release_range(res.free, entry.offset,
                                             entry.offset + real_len(entry), nd),
                            index, res.start, needed_size)

\* ReallocateEntry with a slip: the old range is released before the new one
\* is reserved.
ReallocateEntry_ReleasesFirst(t, entry, index, needed_size, nd) ==
    LET rel == release_range(t.free_regions, entry.offset,
                             entry.offset + real_len(entry), nd)
    IN  IF real_len(entry) >= needed_size
        THEN [panic |-> FALSE, ok |-> FALSE, table |-> t]
        ELSE IF rel.panic THEN [panic |-> TRUE, ok |-> FALSE, table |-> t]
        ELSE IF ~reserve_range(rel.free, needed_size, PAGE_SIZE).some
        THEN [panic |-> FALSE, ok |-> FALSE, table |-> t]
        ELSE [panic |-> FALSE, ok |-> TRUE,
              table |-> Table_reallocate_stores(
                            [t EXCEPT !.free_regions =
                                 reserve_range(rel.free, needed_size, PAGE_SIZE).free],
                            index, reserve_range(rel.free, needed_size, PAGE_SIZE).start,
                            needed_size)]

ReallocateEntry(t, entry, index, needed_size, nd) ==
    IF real_len(entry) >= needed_size
    THEN [panic |-> FALSE, ok |-> FALSE, table |-> t]
    ELSE ReallocateReserved(t, reserve_range(t.free_regions, needed_size, PAGE_SIZE),
                            entry, index, needed_size, nd)

Table_reallocate(t, index, new_size, nd) ==
    IF index >= ENTRY_COUNT
    THEN [panic |-> FALSE, ok |-> FALSE, table |-> t]
    ELSE ReallocateEntry(t, t.inner.entries[index + 1], index, Max(new_size, PAGE_SIZE), nd)

\* Table::get(index): the entry of the slot, as deallocate and reallocate
\* read it.
Table_get(t, index) ==
    IF index < ENTRY_COUNT
    THEN [some |-> TRUE, entry |-> t.inner.entries[index + 1]]
    ELSE [some |-> FALSE, entry |-> EmptyEntry]

(***************************************************************************)
(* The virtual-memory manager: [free_regions, mapped], `mapped` taking the  *)
(* start address of each mapped page to the frame and the flags of its     *)
(* page-table entry.                                                       *)
(***************************************************************************)
NoPages == [start |-> 0, count |-> 0]

\* Manager::new: usable_regions is a sequence of <<start, end>>.
VMM_new(usable_regions) ==
    [free_regions |-> CollectMap([k \in 1..Len(usable_regions) |->
                                     <<usable_regions[k][2] - usable_regions[k][1],
                                       usable_regions[k][1]>>], EmptyMap),
     mapped |-> EmptyMap]

\* The start addresses of the pages of a PageRange.
PagesOf(pages) == {pages.start + k * PAGE_SIZE : k \in 0..(pages.count - 1)}

\* MapPages with a slip: every page of the range is mapped to the first frame.
MapPages_ToFirstFrame(vm, r, phys_start, page_count) ==
    IF ~r.some
    THEN [panic |-> FALSE, some |-> FALSE, pages |-> NoPages, vm |-> vm]
    ELSE IF phys_start % PAGE_SIZE # 0
    THEN [panic |-> TRUE, some |-> FALSE, pages |-> NoPages, vm |-> vm]
    ELSE IF PagesOf([start |-> r.start, count |-> page_count]) \cap DOMAIN vm.mapped # {}
    THEN [panic |-> TRUE, some |-> FALSE, pages |-> NoPages, vm |-> vm]
    ELSE [panic |-> FALSE, some |-> TRUE,
          pages |-> [start |-> r.start, count |-> page_count],
          vm |-> [free_regions |-> r.free,
                  mapped |-> [a \in DOMAIN vm.mapped
                                    \cup PagesOf([start |-> r.start, count |-> page_count]) |->
                                 IF a \in DOMAIN vm.mapped THEN vm.mapped[a]
                                 ELSE [frame |-> phys_start,
                                       flags |-> {"PRESENT", "WRITABLE"}]]]]

\* map_page_range after reserve_page_range has answered r:
\* PhysFrame::from_start_address(phys_start).unwrap() panics on a phys_start
\* that is not aligned to the page size, and map_to(..).unwrap() panics on a
\* page that is mapped already.
MapPages(vm, r, phys_start, page_count) ==
    IF ~r.some
    THEN [panic |-> FALSE, some |-> FALSE, pages |-> NoPages, vm |-> vm]
    ELSE IF phys_start % PAGE_SIZE # 0
    THEN [panic |-> TRUE, some |-> FALSE, pages |-> NoPages, vm |-> vm]
    ELSE IF PagesOf([start |-> r.start, count |-> page_count]) \cap DOMAIN vm.mapped # {}
    THEN [panic |-> TRUE, some |-> FALSE, pages |-> NoPages, vm |-> vm]
    ELSE [panic |-> FALSE, some |-> TRUE,
          pages |-> [start |-> r.start, count |-> page_count],
          vm |-> [free_regions |-> r.free,
                  mapped |-> [a \in DOMAIN vm.mapped
                                    \cup PagesOf([start |-> r.start, count |-> page_count]) |->
                                 IF a \in DOMAIN vm.mapped THEN vm.mapped[a]
                                 ELSE [frame |-> phys_start + (a - r.start),
                                       flags |-> {"PRESENT", "WRITABLE"}]]]]

\* Manager::allocate with reserve_page_range
VMM_allocate(vm, phys_start, page_count) ==
    MapPages(vm,
             reserve_range(vm.free_regions,
                           align_up(Max(page_count, 1) * PAGE_SIZE, PAGE_SIZE), PAGE_SIZE),
             phys_start, Max(page_count, 1))

\* unmap_page_range after release_range has answered rel: unmap(..).unwrap()
\* panics on a page that is not mapped.
UnmapPages(vm, rel, pages) ==
    IF rel.panic THEN [panic |-> TRUE, ok |-> FALSE, vm |-> vm]
    ELSE IF ~rel.ok THEN [panic |-> FALSE, ok |-> FALSE, vm |-> vm]
    ELSE IF ~(PagesOf(pages) \subseteq DOMAIN vm.mapped)
    THEN [panic |-> TRUE, ok |-> FALSE, vm |-> vm]
    ELSE [panic |-> FALSE, ok |-> TRUE,
          vm |-> [free_regions |-> rel.free,
                  mapped |-> [a \in DOMAIN vm.mapped \ PagesOf(pages) |-> vm.mapped[a]]]]

\* Manager::deallocate with release_page_range
VMM_deallocate(vm, pages, nd) ==
    UnmapPages(vm,
               release_range(vm.free_regions, pages.start,
                             pages.start + pages.count * PAGE_SIZE, nd),
               pages)

(***************************************************************************)
(* The content of the devices: `mem` takes the physical address of every   *)
(* half page of a device to a value that stands for its bytes, 0 for bytes *)
(* that read zero and 1 for data that fwrite stored.  Loads and stores go   *)
(* through the page table of the VMM.                                      *)
(***************************************************************************)
PhysUnits ==
    UNION {{DevicePhysAddr(h) + k * HalfPage : k \in 0..(2 * DevPages - 1)} : h \in Handles}
\* A device that was never written reads zero.
BlankMemory == [a \in PhysUnits |-> 0]

\* The virtual addresses of the half pages of [addr, addr + len).
UnitsFrom(addr, len) == {addr + i * HalfPage : i \in 0..(len \div HalfPage - 1)}

PageOf(addr) == (addr \div PAGE_SIZE) * PAGE_SIZE
\* The physical address that the page table gives for a virtual address.
Translate(vm, addr) == vm.mapped[PageOf(addr)].frame + (addr - PageOf(addr))
\* An access to a page that is not mapped, or to no device, is a fault.
Faults(vm, addrs) ==
    \E u \in addrs : PageOf(u) \notin DOMAIN vm.mapped \/ Translate(vm, u) \notin PhysUnits

\* The byte at a virtual address.
Load(s, addr) == s.mem[Translate(s.vmm, addr)]

\* slice.fill(byte) and copy_from_slice of a buffer of such bytes on the
\* slice [addr, addr + len).
Stored(s, addr, len, byte) ==
    IF Faults(s.vmm, UnitsFrom(addr, len)) THEN [s EXCEPT !.panic = TRUE]
    ELSE [s EXCEPT !.mem = [a \in DOMAIN s.mem |->
                               IF \E u \in UnitsFrom(addr, len) : Translate(s.vmm, u) = a
                               THEN byte ELSE s.mem[a]]]

\* to.copy_from_slice(from) for the slices [from, from + len) and
\* [to, to + len).
Copied(s, from, to, len) ==
    IF Faults(s.vmm, UnitsFrom(from, len) \cup UnitsFrom(to, len))
    THEN [s EXCEPT !.panic = TRUE]
    ELSE [s EXCEPT !.mem = [a \in DOMAIN s.mem |->
                               IF \E u \in UnitsFrom(to, len) : Translate(s.vmm, u) = a
                               THEN Load(s, from + (CHOOSE u \in UnitsFrom(to, len) :
                                                       Translate(s.vmm, u) = a) - to)
                               ELSE s.mem[a]]]

(***************************************************************************)
(* The pool manager.  Its state s is [pmems, translated, vmm, panic, mem]: *)
(* pmems[h] is the table of the device with handle h, translated takes an  *)
(* entry offset to [handle, pages], vmm is the VMM it locks, mem is the     *)
(* content of the devices.                                                 *)
(***************************************************************************)
NoResult == [some |-> FALSE, addr |-> 0, len |-> 0]
NoIndex(s) == [some |-> FALSE, handle |-> 0, index |-> 0, state |-> s]

RECURSIVE EnsureFrom(_, _, _)
\* The .map(|r| translated.entry(offset).or_insert(..)) on the answer of allocate.
EnsureMapped(s, h, name, found, a) ==
    IF a.panic THEN NoIndex([s EXCEPT !.panic = TRUE])
    ELSE IF ~a.some THEN EnsureFrom(s, h + 1, name)
    ELSE [some |-> TRUE, handle |-> h, index |-> found.index,
          state |-> [s EXCEPT !.vmm = a.vm,
                              !.translated = MapPut(s.translated, found.inner.offset,
                                                    [handle |-> h, pages |-> a.pages])]]

\* The .and_then on the entry found by name on the device h.
EnsureFound(s, h, name, found) ==
    IF ~found.some THEN EnsureFrom(s, h + 1, name)
    ELSE IF found.inner.offset \in DOMAIN s.translated
    THEN [some |-> TRUE, handle |-> h, index |-> found.index, state |-> s]
    ELSE EnsureMapped(s, h, name, found,
                      VMM_allocate(s.vmm, DevicePhysAddr(h) + found.inner.offset,
                                   frames(found.inner)))

\* The find_map over pmems from the device h on.
EnsureFrom(s, h, name) ==
    IF h > Len(s.pmems) THEN NoIndex(s)
    ELSE EnsureFound(s, h, name, FindByName(Inner_entries(s.pmems[h].inner), name))

ensure_pool_is_mapped_if_existent(s, name) == EnsureFrom(s, 1, name)

\* get_pool: the entry that Table::get answers, looked up in translated.
GetPoolEntry(s, g) ==
    IF g.some /\ g.entry.offset \in DOMAIN s.translated
    THEN [ret |-> [some |-> TRUE, addr |-> s.translated[g.entry.offset].pages.start,
                   len |-> g.entry.length],
          state |-> s]
    ELSE [ret |-> NoResult, state |-> s]

GetPoolAt(e) ==
    IF ~e.some THEN [ret |-> NoResult, state |-> e.state]
    ELSE GetPoolEntry(e.state, Table_get(e.state.pmems[e.handle], e.index))

get_pool(s, name) == GetPoolAt(ensure_pool_is_mapped_if_existent(s, name))

\* create_pool: the find_map over pmems of pools.allocate.
RECURSIVE AllocateFrom(_, _, _, _)
AllocateAt(s, h, name, size, a) ==
    IF a.some THEN [some |-> TRUE, state |-> [s EXCEPT !.pmems[h] = a.table]]
    ELSE AllocateFrom(s, h + 1, name, size)

AllocateFrom(s, h, name, size) ==
    IF h > Len(s.pmems) THEN [some |-> FALSE, state |-> s]
    ELSE AllocateAt(s, h, name, size, Table_allocate(s.pmems[h], name, size))

\* .map(|_| self.get_pool(name).unwrap())
CreateMapped(m) ==
    IF m.state.panic \/ m.ret.some THEN m
    ELSE [ret |-> NoResult, state |-> [m.state EXCEPT !.panic = TRUE]]

CreateAllocated(a, name) ==
    IF ~a.some THEN [ret |-> NoResult, state |-> a.state]
    ELSE CreateMapped(get_pool(a.state, name))

CreateChecked(g, name, size) ==
    IF g.state.panic \/ g.ret.some THEN [ret |-> NoResult, state |-> g.state]
    ELSE CreateAllocated(AllocateFrom(g.state, 1, name, size), name)

create_pool(s, name, size) == CreateChecked(get_pool(s, name), name, size)

\* destroy_pool: the find_map that looks the entry up by name.
RECURSIVE FindPoolFrom(_, _, _)
FindPoolAt(s, h, name, found) ==
    IF found.some
    THEN [some |-> TRUE, handle |-> h, index |-> found.index, inner |-> found.inner]
    ELSE FindPoolFrom(s, h + 1, name)

FindPoolFrom(s, h, name) ==
    IF h > Len(s.pmems)
    THEN [some |-> FALSE, handle |-> 0, index |-> 0, inner |-> EmptyEntry]
    ELSE FindPoolAt(s, h, name, FindByName(Inner_entries(s.pmems[h].inner), name))

\* destroy_pool after the VMM has answered u for the cached pages.
DestroyUnmapped(s, offset, u) ==
    IF u.panic THEN [ret |-> FALSE, state |-> [s EXCEPT !.panic = TRUE]]
    ELSE IF u.ok
    THEN [ret |-> TRUE,
          state |-> [s EXCEPT !.vmm = u.vm, !.translated = MapDel(s.translated, offset)]]
    ELSE [ret |-> TRUE, state |-> s]

\* destroy_pool after pools.deallocate(index) has answered d.
DestroyDeallocated(s, f, d, nd) ==
    IF d.panic THEN [ret |-> FALSE, state |-> [s EXCEPT !.panic = TRUE]]
    ELSE IF ~d.ok THEN [ret |-> FALSE, state |-> s]
    ELSE IF f.inner.offset \notin DOMAIN s.translated
    THEN [ret |-> TRUE, state |-> [s EXCEPT !.pmems[f.handle] = d.table]]
    ELSE DestroyUnmapped([s EXCEPT !.pmems[f.handle] = d.table], f.inner.offset,
                         VMM_deallocate(s.vmm, s.translated[f.inner.offset].pages, nd))

DestroyFound(s, f, nd) ==
    IF ~f.some THEN [ret |-> FALSE, state |-> s]
    ELSE DestroyDeallocated(s, f, Table_deallocate(s.pmems[f.handle], f.index, nd), nd)

destroy_pool(s, name, nd) == DestroyFound(s, FindPoolFrom(s, 1, name), nd)

(***************************************************************************)
(* resize_pool                                                             *)
(***************************************************************************)
NoResize == [some |-> FALSE, addr |-> 0, len |-> 0, old_len |-> 0]

\* The last expression of resize_pool: translated.get(new_offset or old_offset).
ResizeResult(s, offset, old_len, new_size) ==
    [ret |-> IF offset \in DOMAIN s.translated
             THEN [some |-> TRUE, addr |-> s.translated[offset].pages.start,
                   len |-> Max(old_len, new_size), old_len |-> old_len]
             ELSE NoResize,
     state |-> s]

\* After the copy has left s and the VMM has answered u for old_pages; the
\* answer is not looked at.
ResizeFinish(s, new_offset, u, old, new_size) ==
    IF u.panic \/ s.panic THEN [ret |-> NoResize, state |-> [s EXCEPT !.panic = TRUE]]
    ELSE ResizeResult([s EXCEPT !.vmm = u.vm], new_offset, old.length, new_size)

\* After the second Table::get has answered g: the copy of the body, then
\* the release of the old pages.
ResizeCopy(s, g, old_pages, old, new_size, nd) ==
    IF g.some /\ g.entry.offset \in DOMAIN s.translated
    THEN ResizeFinish(Copied(s, old_pages.start, s.translated[g.entry.offset].pages.start,
                             real_len(old)),
                      g.entry.offset, VMM_deallocate(s.vmm, old_pages, nd), old, new_size)
    ELSE [ret |-> NoResize, state |-> s]

\* After the second ensure_pool_is_mapped_if_existent has answered e.
ResizeRemapped(e, old_pages, old, new_size, nd) ==
    IF ~e.some THEN [ret |-> NoResize, state |-> e.state]
    ELSE ResizeCopy(e.state, Table_get(e.state.pmems[e.handle], e.index),
                    old_pages, old, new_size, nd)

\* After translated.remove(&old_offset) has answered old_pages.
ResizeMoved(s, old_pages, old, name, new_size, nd) ==
    ResizeRemapped(ensure_pool_is_mapped_if_existent(s, name), old_pages, old, new_size, nd)

\* After pools.reallocate(index, new_size) has answered r.
ResizeReallocated(s, h, old, r, name, new_size, nd) ==
    IF r.panic THEN [ret |-> NoResize, state |-> [s EXCEPT !.panic = TRUE]]
    ELSE IF ~r.ok THEN [ret |-> NoResize, state |-> s]
    ELSE IF old.offset \notin DOMAIN s.translated
    THEN [ret |-> NoResize, state |-> [s EXCEPT !.pmems[h] = r.table]]
    ELSE ResizeMoved([s EXCEPT !.pmems[h] = r.table,
                               !.translated = MapDel(s.translated, old.offset)],
                     s.translated[old.offset].pages, old, name, new_size, nd)

\* After the first Table::get has answered g.
ResizeEntry(s, h, index, g, name, new_size, nd) ==
    IF ~g.some THEN [ret |-> NoResize, state |-> s]
    ELSE IF real_len(g.entry) < new_size
    THEN ResizeReallocated(s, h, g.entry,
                           Table_reallocate(s.pmems[h], index, new_size, nd),
                           name, new_size, nd)
    ELSE ResizeResult(s, g.entry.offset, g.entry.length, new_size)

ResizeEnsured(e, name, new_size, nd) ==
    IF ~e.some THEN [ret |-> NoResize, state |-> e.state]
    ELSE ResizeEntry(e.state, e.handle, e.index,
                     Table_get(e.state.pmems[e.handle], e.index), name, new_size, nd)

resize_pool(s, name, new_size, nd) ==
    ResizeEnsured(ensure_pool_is_mapped_if_existent(s, name), name, new_size, nd)

(***************************************************************************)
(* Manager::init over the devices of the NFIT, on header pages `pages`     *)
(* (pages[h] is what the device h holds).                                  *)
(***************************************************************************)
BlankPage == [magic_number |-> 0, entries |-> [i \in 1..ENTRY_COUNT |-> EmptyEntry]]

\* The device h as it lies when the kernel does not get to its table.
Untouched(page) == [inner |-> page, nv |-> page, free_regions |-> EmptyMap]

\* A panic during init: the devices from h on stay as they are.
InitPanic(s, h, pages) ==
    [s EXCEPT !.pmems = s.pmems \o [k \in 1..(NumDevices - h + 1) |->
                                       Untouched(pages[h + k - 1])],
              !.panic = TRUE]

RECURSIVE InitFrom(_, _, _, _)
\* pmems.push(ManagedPmem { info, pools: Table::new(device, mapped) })
InitTable(s, h, pages, stable, t) ==
    IF t.panic THEN InitPanic(s, h, pages)
    ELSE InitFrom([s EXCEPT !.pmems = Append(s.pmems, t.table)], h + 1, pages, stable)

\* page_allocator.allocate(device.phys_addr, 1).unwrap()
InitMapped(s, h, pages, stable, a) ==
    IF a.panic \/ ~a.some THEN InitPanic(s, h, pages)
    ELSE InitTable([s EXCEPT !.vmm = a.vm], h, pages, stable,
                   Table_new(DeviceSize(h), pages[h], stable))

InitFrom(s, h, pages, stable) ==
    IF h > NumDevices THEN s
    ELSE InitMapped(s, h, pages, stable, VMM_allocate(s.vmm, DevicePhysAddr(h), 1))

\* The kernel boots: a VMM over the unmapped virtual range, Manager::new(),
\* then Manager::init.
Boot(pages, stable) ==
    InitFrom([pmems |-> << >>, translated |-> EmptyMap,
              vmm |-> VMM_new(<< <<FIRST_ADDRESS, FIRST_ADDRESS + VirtPages * PAGE_SIZE>> >>),
              panic |-> FALSE],
             1, pages, stable)

(***************************************************************************)
(* Power loss.  A store to the header page reaches the device at some time *)
(* between the store and the next barrier that covers it, each field of an *)
(* entry on its own.  The device therefore holds, for every field, either  *)
(* what was persisted for certain before, or a value stored since.         *)
(***************************************************************************)
\* The entries whose fields each come from one of the versions.
FieldMix(versions) ==
    {[offset |-> o.offset, length |-> l.length, name |-> n.name] :
        o \in versions, l \in versions, n \in versions}

\* What the slot i of a device may hold: `nv` is persisted for certain,
\* `before` is what the CPU saw when the running operation began, `seen`
\* what it sees once the operation has made its stores.
SlotImages(nv, before, seen, i) ==
    FieldMix({nv.entries[i], before.entries[i], seen.entries[i]})

\* The entry arrays a device may hold, slot by slot.
RECURSIVE EntryImages(_, _, _, _)
EntryImages(nv, before, seen, n) ==
    IF n = 0 THEN {<< >>}
    ELSE {Append(es, e) : es \in EntryImages(nv, before, seen, n - 1),
                          e \in SlotImages(nv, before, seen, n)}

PageImages(nv, before, seen) ==
    {[magic_number |-> nv.magic_number, entries |-> es] :
        es \in EntryImages(nv, before, seen, ENTRY_COUNT)}

\* The header pages of all devices when power is lost while an operation
\* takes the manager from s to t (s = t: between operations).
RECURSIVE CrashPagesFrom(_, _, _)
CrashPagesFrom(s, t, n) ==
    IF n = 0 THEN {<< >>}
    ELSE {Append(pages, page) :
              pages \in CrashPagesFrom(s, t, n - 1),
              page \in PageImages(s.pmems[n].nv, s.pmems[n].inner, t.pmems[n].inner)}

CrashPages(s, t) == CrashPagesFrom(s, t, NumDevices)

(***************************************************************************)
(* The state machine: the kernel boots on blank devices, then callers use  *)
(* the manager through its lock, one operation at a time.                  *)
(***************************************************************************)
VARIABLES pmems, translated, vmm, panic, boots, nfit, mem

vars == <<pmems, translated, vmm, panic, boots, nfit, mem>>

\* nfit is the iteration over the NFIT table and what get_devices made of
\* it; NoNfit stands for a table that is not looked at.
NoNfit == [body |-> << >>, pointer |-> 0, remaining_length |-> 0, yielded |-> << >>,
           status |-> "unread", devices |-> << >>]

\* The manager as a record, as the operations above take it.
St == [pmems |-> pmems, translated |-> translated, vmm |-> vmm, panic |-> panic, mem |-> mem]

\* An operation leaves the manager as s; `boots` counts the boots that
\* followed a power loss.
Returns(s) ==
    /\ pmems' = s.pmems
    /\ translated' = s.translated
    /\ vmm' = s.vmm
    /\ panic' = s.panic
    /\ boots' = boots
    /\ mem' = s.mem
    /\ nfit' = nfit

Rebooted(s) ==
    /\ pmems' = s.pmems
    /\ translated' = s.translated
    /\ vmm' = s.vmm
    /\ panic' = s.panic
    /\ boots' = boots + 1
    /\ UNCHANGED <<nfit, mem>>

\* Manager::init on devices that were never written.
Booted == Boot([h \in Handles |-> BlankPage], TRUE)

Init ==
    /\ pmems = Booted.pmems
    /\ translated = Booted.translated
    /\ vmm = Booted.vmm
    /\ panic = Booted.panic
    /\ boots = 0
    /\ nfit = NoNfit
    /\ mem = BlankMemory

CreatePool(name, size) ==
    /\ ~panic
    /\ Returns(create_pool(St, name, size).state)

GetPool(name) ==
    /\ ~panic
    /\ Returns(get_pool(St, name).state)

DestroyPool(name, nd) ==
    /\ ~panic
    /\ Returns(destroy_pool(St, name, nd).state)

ResizePool(name, new_size, nd) ==
    /\ ~panic
    /\ Returns(resize_pool(St, name, new_size, nd).state)

\* Power is lost and the kernel boots again on what the devices hold.
Reboots(images) ==
    /\ boots < MaxPowerLoss
    /\ \E pages \in images, stable \in BOOLEAN : Rebooted(Boot(pages, stable))

\* Power is lost between two operations, or after a panic.
PowerLoss == Reboots(CrashPages(St, St))

\* Power is lost while create_pool(name, size) runs.
PowerLossInCreate(name, size) ==
    /\ ~panic
    /\ Reboots(CrashPages(St, create_pool(St, name, size).state))

\* Power is lost while destroy_pool(name) runs.
PowerLossInDestroy(name, nd) ==
    /\ ~panic
    /\ Reboots(CrashPages(St, destroy_pool(St, name, nd).state))

Next ==
    \/ \E name \in AllNames, size \in Sizes : CreatePool(name, size)
    \/ \E name \in AllNames : GetPool(name)
    \/ \E name \in AllNames, nd \in BOOLEAN : DestroyPool(name, nd)
    \/ \E name \in AllNames, size \in Sizes, nd \in BOOLEAN : ResizePool(name, size, nd)

\* The manager without power loss.
Spec == Init /\ [][Next]_vars

NextCrash ==
    \/ Next
    \/ PowerLoss
    \/ \E name \in Names, size \in Sizes : PowerLossInCreate(name, size)
    \/ \E name \in Names, nd \in BOOLEAN : PowerLossInDestroy(name, nd)

\* The manager with power loss at any point.
SpecCrash == Init /\ [][NextCrash]_vars

(***************************************************************************)
(* Manager::init on devices with any content: before the kernel has booted *)
(* pmems[h] stands for the header page that the device h holds.            *)
(***************************************************************************)
\* Entries that a header page may hold before the first boot.
HeaderEntries ==
    {EmptyEntry, [offset |-> PAGE_SIZE, length |-> PAGE_SIZE + PAGE_SIZE \div 2, name |-> "a"]}

\* Header pages with the magic number of a table, and with two other values.
HeaderPages ==
    {[magic_number |-> m, entries |-> es] :
        m \in {MAGIC_NUMBER, MAGIC_NUMBER + 1, 0},
        es \in [1..ENTRY_COUNT -> HeaderEntries]}

InitDevices ==
    /\ pmems \in [Handles -> {Untouched(page) : page \in HeaderPages}]
    /\ translated = EmptyMap
    /\ vmm = VMM_new(<< <<FIRST_ADDRESS, FIRST_ADDRESS + VirtPages * PAGE_SIZE>> >>)
    /\ panic = FALSE
    /\ boots = 0
    /\ nfit = NoNfit
    /\ mem = BlankMemory

\* kernel_main calls pmem::MANAGER.lock().init(&nfit), once.
ManagerInit(stable) ==
    /\ boots = 0
    /\ Rebooted(Boot([h \in Handles |-> pmems[h].nv], stable))

NextInit == \E stable \in BOOLEAN : ManagerInit(stable)

\* The first boot of the kernel on devices with any content.
SpecInit == InitDevices /\ [][NextInit]_vars

(***************************************************************************)
(* Properties.                                                             *)
(***************************************************************************)
\* The slots of a table that hold a live entry (1-based).
LiveSlots(t) == {i \in 1..ENTRY_COUNT : IsLive(t.inner.entries[i])}

\* The interval [offset, offset + real_len) of an entry.
IntervalOf(entry) == <<entry.offset, entry.offset + real_len(entry)>>

\* Two intervals <<start, end>> have no byte in common.
Disjoint(a, b) == a[2] <= a[1] \/ b[2] <= b[1] \/ a[2] <= b[1] \/ b[2] <= a[1]

\* The live entry of a name on some device of the manager s, if any.
HasPool(s, name) == FindPoolFrom(s, 1, name).some
EntryOf(s, name) == FindPoolFrom(s, 1, name).inner

\* C1: any two live entries of a device with distinct names have
\* byte-disjoint intervals [offset, offset + real_len).
C1_LiveIntervalsDisjoint ==
    \A h \in 1..Len(pmems) : \A i, j \in LiveSlots(pmems[h]) :
        pmems[h].inner.entries[i].name # pmems[h].inner.entries[j].name
        => Disjoint(IntervalOf(pmems[h].inner.entries[i]),
                    IntervalOf(pmems[h].inner.entries[j]))

\* C1 witness: two pools live at once, one of them of a size that is not a
\* multiple of the page size, so that its interval is longer than its length.
C1_Witness ==
    \E h \in 1..Len(pmems) : \E i, j \in LiveSlots(pmems[h]) :
        /\ i # j
        /\ pmems[h].inner.entries[i].length % PAGE_SIZE # 0
        /\ pmems[h].inner.entries[i].length > PAGE_SIZE
        /\ real_len(pmems[h].inner.entries[j]) > 0

\* C2: destroy_pool(n) on an existing pool n (one that takes up space)
\* returns true, leaves no live entry of n, and every other live pool keeps
\* its name, offset and length.
C2_DestroyZeroesOnlyItsEntry ==
    ~panic =>
        \A n \in Names, nd \in BOOLEAN :
            (HasPool(St, n) /\ real_len(EntryOf(St, n)) > 0) =>
                /\ destroy_pool(St, n, nd).ret
                /\ ~destroy_pool(St, n, nd).state.panic
                /\ ~HasPool(destroy_pool(St, n, nd).state, n)
                /\ \A m \in Names \ {n} :
                       HasPool(St, m) =>
                           /\ HasPool(destroy_pool(St, n, nd).state, m)
                           /\ EntryOf(destroy_pool(St, n, nd).state, m) = EntryOf(St, m)

\* C3: get_pool(n) returns the logical length of n for every name with a
\* live entry, and none for every name without one.
C3_GetPoolFindsLivePools ==
    ~panic =>
        \A n \in AllNames :
            IF HasPool(St, n)
            THEN /\ get_pool(St, n).ret.some
                 /\ get_pool(St, n).ret.len = EntryOf(St, n).length
            ELSE ~get_pool(St, n).ret.some

\* C4: whenever create_pool(n, s) returns (addr, len), len = s and a
\* get_pool(n) right after it returns the same (addr, len).
C4_CreateGetRoundTrip ==
    ~panic =>
        \A n \in AllNames, s \in Sizes :
            create_pool(St, n, s).ret.some =>
                /\ create_pool(St, n, s).ret.len = s
                /\ get_pool(create_pool(St, n, s).state, n).ret = create_pool(St, n, s).ret

\* C5: destroy_pool(n) of an existing pool returns true and a second
\* destroy_pool(n) returns false; destroy_pool of a name without a live
\* entry returns false and changes nothing.
C5_DestroyTwice ==
    ~panic =>
        \A n \in AllNames, nd \in BOOLEAN :
            IF HasPool(St, n)
            THEN /\ destroy_pool(St, n, nd).ret
                 /\ ~destroy_pool(St, n, nd).state.panic
                 /\ \A nd2 \in BOOLEAN :
                        /\ ~destroy_pool(destroy_pool(St, n, nd).state, n, nd2).ret
                        /\ ~destroy_pool(destroy_pool(St, n, nd).state, n, nd2).state.panic
            ELSE destroy_pool(St, n, nd) = [ret |-> FALSE, state |-> St]

\* C6: the interval [offset, offset + real_len) of every live entry is
\* disjoint from every range of the free index of its device.
C6_LiveDisjointFromFree ==
    \A h \in 1..Len(pmems) : \A i \in LiveSlots(pmems[h]) :
        \A r \in FreeRanges(pmems[h].free_regions) :
            Disjoint(IntervalOf(pmems[h].inner.entries[i]), r)

\* The intervals of live entries and the free ranges of a table that hold
\* the byte at an address.
LiveHolding(t, addr) ==
    {i \in LiveSlots(t) : /\ t.inner.entries[i].offset <= addr
                          /\ addr < t.inner.entries[i].offset + real_len(t.inner.entries[i])}
FreeHolding(t, addr) ==
    {r \in FreeRanges(t.free_regions) : r[1] <= addr /\ addr < r[2]}

\* C7: every byte of the device body [PAGE_SIZE, device.size) is inside the
\* interval of exactly one live entry or inside exactly one free range.
\* All interval bounds are multiples of half a page, so the bytes at the
\* half pages stand for all.
C7_BodyPartitioned ==
    \A h \in 1..Len(pmems) :
        \A k \in 2..((DeviceSize(h) \div (PAGE_SIZE \div 2)) - 1) :
            Cardinality(LiveHolding(pmems[h], k * (PAGE_SIZE \div 2)))
            + Cardinality(FreeHolding(pmems[h], k * (PAGE_SIZE \div 2))) = 1

\* After a boot on `pages` the pool n is fully present as `entry`, or absent.
PresentOrAbsent(pages, stable, n, entry) ==
    \/ ~HasPool(Boot(pages, stable), n)
    \/ EntryOf(Boot(pages, stable), n) = entry

\* C8: when power is lost during create_pool(n, s) or destroy_pool(n), the
\* boot that follows finds n either with the offset and length of the
\* complete entry, or not at all.
C8_PowerLossAtomic ==
    ~panic =>
        \A n \in Names, stable \in BOOLEAN :
            /\ \A s \in Sizes :
                   create_pool(St, n, s).ret.some =>
                       \A pages \in CrashPages(St, create_pool(St, n, s).state) :
                           PresentOrAbsent(pages, stable, n,
                                           EntryOf(create_pool(St, n, s).state, n))
            /\ \A nd \in BOOLEAN :
                   (HasPool(St, n) /\ destroy_pool(St, n, nd).ret) =>
                       \A pages \in CrashPages(St, destroy_pool(St, n, nd).state) :
                           PresentOrAbsent(pages, stable, n, EntryOf(St, n))

\* The manager s, in which create_pool(n, ..) has just returned `ret`, is
\* restarted on `pages`: get_pool(n) yields the same offset and length.
SurvivesRestart(s, ret, pages, stable, n) ==
    /\ ~Boot(pages, stable).panic
    /\ get_pool(Boot(pages, stable), n).ret.some
    /\ get_pool(Boot(pages, stable), n).ret.len = ret.len
    /\ EntryOf(Boot(pages, stable), n).offset = EntryOf(s, n).offset

\* C9: after create_pool(n, s) has returned successfully, a restart that
\* reads the device again followed by get_pool(n) yields the same offset
\* and the same logical length.  The restart is taken with the order that
\* an insertion sort gives to ranges with equal starts.
C9_CreateIsDurable ==
    ~panic =>
        \A n \in Names, s \in Sizes :
            create_pool(St, n, s).ret.some =>
                \A pages \in CrashPages(create_pool(St, n, s).state,
                                        create_pool(St, n, s).state) :
                    SurvivesRestart(create_pool(St, n, s).state,
                                    create_pool(St, n, s).ret, pages, TRUE, n)

\* C10: when an operation has returned, every byte it stored to a header
\* page has been covered by a barrier: the page as the CPU sees it is the
\* page that is persisted.
C10_MutationsPersisted ==
    \A h \in 1..Len(pmems) : pmems[h].inner = pmems[h].nv

\* The free index of a table is the complement of the intervals of its live
\* entries within the body of a device of `size` bytes.  All bounds are
\* multiples of half a page, so the bytes at the half pages stand for all.
IsComplementOfLive(t, size) ==
    \A k \in 2..((size \div (PAGE_SIZE \div 2)) - 1) :
        Cardinality(FreeHolding(t, k * (PAGE_SIZE \div 2)))
        = IF LiveHolding(t, k * (PAGE_SIZE \div 2)) = {} THEN 1 ELSE 0

\* C11: Table::new on a header page with a valid magic, as a run has left it
\* on the device, builds a free index that is exactly the complement of the
\* live entries' intervals within [PAGE_SIZE, device.size), and that is the
\* free index the run held.
C11_RecoveredFreeIsComplement ==
    ~panic =>
        \A h \in 1..Len(pmems), stable \in BOOLEAN :
            /\ ~Table_new(DeviceSize(h), pmems[h].nv, stable).panic
            /\ IsComplementOfLive(Table_new(DeviceSize(h), pmems[h].nv, stable).table,
                                  DeviceSize(h))
            /\ Table_new(DeviceSize(h), pmems[h].nv, stable).table.free_regions
               = pmems[h].free_regions

\* The header page that Inner::init writes.
InitialisedPage ==
    [magic_number |-> MAGIC_NUMBER, entries |-> [i \in 1..ENTRY_COUNT |-> EmptyEntry]]

\* Manager::init gets to the table of the device h: no device before it
\* makes Table::new panic.
InitReaches(h, stable) ==
    \A g \in 1..(h - 1) : ~Table_new(DeviceSize(g), pmems[g].nv, stable).panic

\* C12: when the magic number that init reads on a device differs from
\* 0x9898, then after init the magic is 0x9898, every entry is all-zero (no
\* pool is found), the whole page is persisted, and the free index is the
\* single range [PAGE_SIZE, device.size).
C12_BadMagicReinitialises ==
    [][\A h \in Handles, stable \in BOOLEAN :
           (/\ boots = 0
            /\ pmems' = Boot([g \in Handles |-> pmems[g].nv], stable).pmems
            /\ boots' = 1
            /\ ~Inner_is_valid(pmems[h].nv)
            /\ InitReaches(h, stable))
           => /\ pmems'[h].inner = InitialisedPage
              /\ pmems'[h].nv = InitialisedPage
              /\ Inner_entries(pmems'[h].inner) = << >>
              /\ pmems'[h].free_regions
                 = MapPut(EmptyMap, DeviceSize(h) - PAGE_SIZE, PAGE_SIZE)]_vars

\* C12 witness: init has run and a table of a device is the initialised
\* page with the whole body free, while another device kept a pool.
C12_Witness ==
    /\ boots = 1
    /\ ~panic
    /\ \E h \in 1..Len(pmems) :
           /\ pmems[h].inner = InitialisedPage
           /\ pmems[h].nv = InitialisedPage
           /\ pmems[h].free_regions = MapPut(EmptyMap, DeviceSize(h) - PAGE_SIZE, PAGE_SIZE)
    /\ \E g \in 1..Len(pmems) : LiveSlots(pmems[g]) # {}

\* The live pool n of the manager s is mapped: the cache holds its offset.
IsMapped(s, name) == HasPool(s, name) /\ EntryOf(s, name).offset \in DOMAIN s.translated

\* C13: resize_pool(n, s2) with s2 not above the real length of the mapped
\* pool n returns the address of the existing mapping and max(old_len, s2),
\* and leaves the tables, their free indexes, the cache and the VMM as they
\* were.
C13_ResizeWithinRealLen ==
    ~panic =>
        \A n \in Names, s2 \in Sizes, nd \in BOOLEAN :
            (IsMapped(St, n) /\ s2 <= real_len(EntryOf(St, n))) =>
                /\ resize_pool(St, n, s2, nd).ret.some
                /\ resize_pool(St, n, s2, nd).ret.addr
                   = translated[EntryOf(St, n).offset].pages.start
                /\ resize_pool(St, n, s2, nd).ret.len = Max(EntryOf(St, n).length, s2)
                /\ resize_pool(St, n, s2, nd).state = St

\* The device that holds the live pool of a name in the manager s.
HandleOf(s, name) == FindPoolFrom(s, 1, name).handle

\* The free index of the device of n holds a range for a pool of new_size.
HasRoomFor(s, name, new_size) ==
    reserve_range(s.pmems[HandleOf(s, name)].free_regions,
                  Max(new_size, PAGE_SIZE), PAGE_SIZE).some

\* Every byte of the interval of an entry lies in a free range of the table.
IsReleased(t, entry) ==
    \A k \in 0..((real_len(entry) \div (PAGE_SIZE \div 2)) - 1) :
        FreeHolding(t, entry.offset + k * (PAGE_SIZE \div 2)) # {}

\* The outcome r of resize_pool(n, new_size) on the manager s is a move of
\* n to a range that was free, with the old interval released and the new
\* body mapped at the address returned.
IsMovedTo(s, r, name, new_size) ==
    /\ ~r.state.panic
    /\ r.ret.some
    /\ r.ret.len = new_size
    /\ HasPool(r.state, name)
    /\ EntryOf(r.state, name).length = new_size
    /\ EntryOf(r.state, name).offset
       = reserve_range(s.pmems[HandleOf(s, name)].free_regions,
                       Max(new_size, PAGE_SIZE), PAGE_SIZE).start
    /\ IsReleased(r.state.pmems[HandleOf(s, name)], EntryOf(s, name))
    /\ IsMapped(r.state, name)
    /\ r.ret.addr = r.state.translated[EntryOf(r.state, name).offset].pages.start
    /\ r.ret.addr \in DOMAIN r.state.vmm.mapped
    /\ r.state.vmm.mapped[r.ret.addr].frame
       = DevicePhysAddr(HandleOf(s, name)) + EntryOf(r.state, name).offset

\* C14: resize_pool(n, new_size) with new_size above the real length of the
\* mapped pool n, on a device with a free range for it, moves the entry of n
\* to a freshly reserved range, sets its length to new_size, releases the
\* old interval to the free index and returns the address of the new
\* mapping and new_size.  The copy of the body goes to the address returned:
\* the property states that this address maps the new range.
C14_GrowingResizeMoves ==
    ~panic =>
        \A n \in Names, new_size \in Sizes, nd \in BOOLEAN :
            (/\ IsMapped(St, n)
             /\ new_size > real_len(EntryOf(St, n))
             /\ HasRoomFor(St, n, new_size))
            => IsMovedTo(St, resize_pool(St, n, new_size, nd), n, new_size)

\* C15: whenever resize_pool(n, s) returns (addr, len), a get_pool(n) right
\* after it returns the same addr and the same len.
C15_ResizeThenGet ==
    ~panic =>
        \A n \in Names, s \in Sizes, nd \in BOOLEAN :
            resize_pool(St, n, s, nd).ret.some =>
                /\ get_pool(resize_pool(St, n, s, nd).state, n).ret.some
                /\ get_pool(resize_pool(St, n, s, nd).state, n).ret.addr
                   = resize_pool(St, n, s, nd).ret.addr
                /\ get_pool(resize_pool(St, n, s, nd).state, n).ret.len
                   = resize_pool(St, n, s, nd).ret.len

\* C16: a create_pool that returns none leaves the entry array and the free
\* index of every device as they were; so does every Table::allocate that
\* returns none, whether the name is longer than 30 bytes, the entry array
\* is full or no free range is large enough.
C16_FailedCreateChangesNothing ==
    ~panic =>
        /\ \A n \in AllNames, s \in Sizes :
               (~create_pool(St, n, s).ret.some /\ ~create_pool(St, n, s).state.panic)
               => create_pool(St, n, s).state.pmems = pmems
        /\ \A h \in 1..Len(pmems), n \in AllNames, s \in Sizes :
               ~Table_allocate(pmems[h], n, s).some
               => Table_allocate(pmems[h], n, s).table = pmems[h]

\* C16 witness: the entry array of one device is full, another device has
\* an empty slot but no free range for a pool, and create_pool of a name of
\* 31 bytes and of a name that is not live both return none.
C16_Witness ==
    /\ ~panic
    /\ \E h \in 1..Len(pmems) :
           /\ LiveCount(pmems[h]) = ENTRY_COUNT
           /\ ~Table_allocate(pmems[h], "a", PAGE_SIZE).some
    /\ \E h \in 1..Len(pmems) :
           /\ LiveCount(pmems[h]) < ENTRY_COUNT
           /\ ~reserve_range(pmems[h].free_regions, PAGE_SIZE, PAGE_SIZE).some
           /\ ~Table_allocate(pmems[h], "a", PAGE_SIZE).some
    /\ ~create_pool(St, LongName, PAGE_SIZE).ret.some
    /\ \E n \in Names : /\ ~HasPool(St, n)
                        /\ ~create_pool(St, n, PAGE_SIZE).ret.some
                        /\ ~create_pool(St, n, PAGE_SIZE).state.panic

\* The live entries of all devices of the manager, as <<handle, slot>>.
LiveEntries == {<<h, i>> : h \in 1..Len(pmems), i \in 1..ENTRY_COUNT} \cap
               {e \in (1..Len(pmems)) \X (1..ENTRY_COUNT) : IsLive(pmems[e[1]].inner.entries[e[2]])}

\* C17: create_pool(n, s) returns none whenever a live pool named n exists,
\* and no two live entries (across all devices) carry the same name.
C17_NamesAreUnique ==
    ~panic =>
        /\ \A n \in Names, s \in Sizes :
               HasPool(St, n) => ~create_pool(St, n, s).ret.some
        /\ \A e, f \in LiveEntries :
               e # f => pmems[e[1]].inner.entries[e[2]].name
                        # pmems[f[1]].inner.entries[f[2]].name

\* The answer g of get_pool(n) on the manager s is an address that the VMM
\* maps to the body of n: phys_addr of the device of n plus the offset of n.
IsBackedByPool(s, g, name) ==
    /\ g.ret.addr \in DOMAIN g.state.vmm.mapped
    /\ g.state.vmm.mapped[g.ret.addr].frame
       = DevicePhysAddr(HandleOf(s, name)) + EntryOf(s, name).offset

\* C18: get_pool(n) returns an address backed by phys_addr(device of n) +
\* offset(n); two live pools on different devices never get the same
\* address; and destroy_pool of one pool leaves the address of another
\* mapped.
C18_MappingsPerDeviceAndOffset ==
    ~panic =>
        /\ \A n \in Names :
               get_pool(St, n).ret.some => IsBackedByPool(St, get_pool(St, n), n)
        /\ \A n, m \in Names :
               (/\ n # m
                /\ HasPool(St, n) /\ HasPool(St, m)
                /\ HandleOf(St, n) # HandleOf(St, m)
                /\ get_pool(St, n).ret.some
                /\ get_pool(get_pool(St, n).state, m).ret.some)
               => get_pool(St, n).ret.addr # get_pool(get_pool(St, n).state, m).ret.addr
        /\ \A n, m \in Names, nd \in BOOLEAN :
               (/\ n # m
                /\ get_pool(St, m).ret.some
                /\ HasPool(St, n)
                /\ ~destroy_pool(get_pool(St, m).state, n, nd).state.panic)
               => get_pool(St, m).ret.addr
                  \in DOMAIN destroy_pool(get_pool(St, m).state, n, nd).state.vmm.mapped

\* C19: every live entry of a device lies in the body of the device:
\* offset >= PAGE_SIZE and offset + real_len <= device.size.
C19_EntriesInsideDevice ==
    \A h \in 1..Len(pmems) : \A i \in LiveSlots(pmems[h]) :
        /\ pmems[h].inner.entries[i].offset >= PAGE_SIZE
        /\ pmems[h].inner.entries[i].offset + real_len(pmems[h].inner.entries[i])
           <= DeviceSize(h)

\* No two ranges of a free index overlap, and none is of length zero.
IsWellFormedIndex(fr) ==
    /\ \A size \in DOMAIN fr : size > 0
    /\ \A r, q \in FreeRanges(fr) : r # q => Disjoint(r, q)

\* C20: the free index of every pool table and the free index of the VMM
\* hold no two overlapping free ranges and no free range of length zero.
C20_FreeIndexWellFormed ==
    /\ \A h \in 1..Len(pmems) : IsWellFormedIndex(pmems[h].free_regions)
    /\ IsWellFormedIndex(vmm.free_regions)

(***************************************************************************)
(* The virtual-memory manager on its own: the kernel builds it over the    *)
(* holes that its own mappings leave, then callers allocate and deallocate.*)
(***************************************************************************)
MaxPageCount == 2
\* LAST_ADDRESS, the end of the address space, within the bound VirtPages.
LAST_ADDRESS == FIRST_ADDRESS + VirtPages * PAGE_SIZE

\* UsableRegions::into_usable: the holes between the mapped regions, which
\* come sorted by address as <<start, end>>, and the space after the last.
RECURSIVE UsableFrom(_, _, _)
UsableFrom(regions, current, res) ==
    IF regions = << >>
    THEN IF current < LAST_ADDRESS THEN Append(res, <<current, LAST_ADDRESS>>) ELSE res
    ELSE UsableFrom(Tail(regions), Head(regions)[2], Append(res, <<current, Head(regions)[1]>>))

into_usable(regions) ==
    SelectSeq(UsableFrom(regions, FIRST_ADDRESS, << >>), LAMBDA r : r[1] < r[2])

\* What the kernel has mapped when it builds the VMM: nothing above
\* FIRST_ADDRESS, or one region of one or two pages there.
KernelRegions ==
    {<< >>} \cup {<< <<FIRST_ADDRESS + i * PAGE_SIZE, FIRST_ADDRESS + (i + c) * PAGE_SIZE>> >> :
                     i \in 0..(VirtPages - 2), c \in 1..2}

\* The page table that the mapper handed to Manager::new holds.
KernelMapped(regions) ==
    [a \in UNION {{r[1] + i * PAGE_SIZE : i \in 0..((r[2] - r[1]) \div PAGE_SIZE - 1)} :
                     r \in {regions[k] : k \in 1..Len(regions)}} |->
        [frame |-> a, flags |-> {"PRESENT"}]]

\* Physical start addresses handed to allocate: an aligned one and one that
\* is not aligned to the page size.
PhysStarts == {DevicePhysAddr(1), DevicePhysAddr(1) + PAGE_SIZE \div 2}

\* The page ranges handed to deallocate: any range of the address space.
PageRanges ==
    {[start |-> FIRST_ADDRESS + i * PAGE_SIZE, count |-> c] :
        i \in 0..(VirtPages - 1), c \in 0..MaxPageCount}

InitVmm ==
    /\ pmems = << >>
    /\ translated = EmptyMap
    /\ \E regions \in KernelRegions :
           vmm = [VMM_new(into_usable(regions)) EXCEPT !.mapped = KernelMapped(regions)]
    /\ panic = FALSE
    /\ boots = 0
    /\ nfit = NoNfit
    /\ mem = BlankMemory

VmmReturns(r) ==
    /\ vmm' = r.vm
    /\ panic' = r.panic
    /\ UNCHANGED <<pmems, translated, boots, nfit, mem>>

VmmAllocate(phys_start, page_count) ==
    /\ ~panic
    /\ VmmReturns(VMM_allocate(vmm, phys_start, page_count))

VmmDeallocate(pages, nd) ==
    /\ ~panic
    /\ VmmReturns(VMM_deallocate(vmm, pages, nd))

NextVmm ==
    \/ \E phys_start \in PhysStarts, page_count \in 0..MaxPageCount :
           VmmAllocate(phys_start, page_count)
    \/ \E pages \in PageRanges, nd \in BOOLEAN : VmmDeallocate(pages, nd)

\* The VMM under any sequence of allocate and deallocate calls.
SpecVmm == InitVmm /\ [][NextVmm]_vars

\* The addresses (in units of half a page) that lie in a free range of an index.
Covered(fr) ==
    UNION {{k \in (r[1] \div HalfPage)..((r[2] - 1) \div HalfPage) : TRUE} : r \in FreeRanges(fr)}
UnitsOf(start, end) == {k \in (start \div HalfPage)..((end - 1) \div HalfPage) : TRUE}

\* The free ranges that exist in the address space of the VMM vm: the
\* maximal runs <<start, end>> of pages that the page table does not map.
IsUnmappedRun(vm, start, end) ==
    /\ \A a \in PagesOf([start |-> start, count |-> (end - start) \div PAGE_SIZE]) :
           a \notin DOMAIN vm.mapped
    /\ start = FIRST_ADDRESS \/ (start - PAGE_SIZE) \in DOMAIN vm.mapped
    /\ end = LAST_ADDRESS \/ end \in DOMAIN vm.mapped

FreeRuns(vm) ==
    {r \in {<<FIRST_ADDRESS + i * PAGE_SIZE, FIRST_ADDRESS + j * PAGE_SIZE>> :
               i \in 0..VirtPages, j \in 0..VirtPages} :
        r[1] < r[2] /\ IsUnmappedRun(vm, r[1], r[2])}

\* C21: whenever two disjoint, non-adjacent free ranges of equal size exist
\* (at construction from a list of ranges, after a reserve that leaves a
\* remainder or padding, after a release), the free-range index holds both,
\* each with its own start offset.
C21_EqualSizedRangesCoexist ==
    ~panic =>
        \A r, q \in FreeRuns(vmm) :
            (r # q /\ r[2] - r[1] = q[2] - q[1])
            => (r \in FreeRanges(vmm.free_regions) /\ q \in FreeRanges(vmm.free_regions))

(***************************************************************************)
(* release_range on any index that allocate and deallocate can leave: a     *)
(* set of free runs of pairwise distinct sizes, every other page mapped.    *)
(***************************************************************************)
IndexPages == 9
IndexSpace == {FIRST_ADDRESS + i * PAGE_SIZE : i \in 0..(IndexPages - 1)}

\* The maximal runs <<start, end>> of a set of pages.
RunsOf(free) ==
    {r \in {<<a, b + PAGE_SIZE>> : a \in free, b \in free} :
        /\ r[1] < r[2]
        /\ \A c \in IndexSpace : (r[1] <= c /\ c < r[2]) => c \in free
        /\ (r[1] - PAGE_SIZE) \notin free
        /\ r[2] \notin free}

\* The index of a set of runs of pairwise distinct sizes.
IndexOf(runs) ==
    [size \in {r[2] - r[1] : r \in runs} |->
        (CHOOSE r \in runs : r[2] - r[1] = size)[1]]

InitIndex ==
    /\ pmems = << >>
    /\ translated = EmptyMap
    /\ \E free \in SUBSET IndexSpace :
           /\ \A r, q \in RunsOf(free) : r # q => r[2] - r[1] # q[2] - q[1]
           /\ vmm = [free_regions |-> IndexOf(RunsOf(free)),
                     mapped |-> [a \in IndexSpace \ free |->
                                    [frame |-> a, flags |-> {"PRESENT", "WRITABLE"}]]]
    /\ panic = FALSE
    /\ boots = 0
    /\ nfit = NoNfit
    /\ mem = BlankMemory

IndexRanges == {[start |-> a, count |-> c] : a \in IndexSpace, c \in 1..MaxPageCount}

NextRelease == \E pages \in IndexRanges, nd \in BOOLEAN : VmmDeallocate(pages, nd)

\* deallocate on any well-formed state of the VMM.
SpecRelease == InitIndex /\ [][NextRelease]_vars

\* The free ranges of the index fr that end at start and that start at end.
LeftOf(fr, start) == {r \in FreeRanges(fr) : r[2] = start}
RightOf(fr, end) == {r \in FreeRanges(fr) : r[1] = end}

\* C22: after the release of an interval that abuts a free range on its
\* left and one on its right the index holds the one merged range and none
\* of the three, and after every successful release no two free ranges of
\* the index are adjacent.
C22_ReleaseCoalesces ==
    ~panic =>
        \A pages \in IndexRanges, nd \in BOOLEAN :
            VMM_deallocate(vmm, pages, nd).ok =>
                /\ \A l \in LeftOf(vmm.free_regions, pages.start),
                      r \in RightOf(vmm.free_regions, pages.start + pages.count * PAGE_SIZE) :
                       /\ <<l[1], r[2]>> \in FreeRanges(VMM_deallocate(vmm, pages, nd).vm.free_regions)
                       /\ l \notin FreeRanges(VMM_deallocate(vmm, pages, nd).vm.free_regions)
                       /\ r \notin FreeRanges(VMM_deallocate(vmm, pages, nd).vm.free_regions)
                /\ \A r, q \in FreeRanges(VMM_deallocate(vmm, pages, nd).vm.free_regions) :
                       r[2] # q[1]

\* deallocate, answering d, has given back what allocate took from vm.
GivesBack(vm, d) ==
    /\ ~d.panic
    /\ d.ok
    /\ Covered(d.vm.free_regions) = Covered(vm.free_regions)

\* C23: from every reachable state of the VMM, an allocate(phys, k) that
\* succeeds, followed by a deallocate of the range it returned, leaves a
\* free index that describes the same set of free addresses as before.
C23_AllocateDeallocateInverts ==
    ~panic =>
        \A phys_start \in PhysStarts, page_count \in 0..MaxPageCount, nd \in BOOLEAN :
            VMM_allocate(vmm, phys_start, page_count).some =>
                GivesBack(vmm, VMM_deallocate(VMM_allocate(vmm, phys_start, page_count).vm,
                                              VMM_allocate(vmm, phys_start, page_count).pages,
                                              nd))

\* allocate(phys_start, ..) on the VMM vm has answered a with `count` pages:
\* they start at a page boundary, lay in free space of vm and lie in no free
\* range now, were mapped by nothing before, and the i-th of them is mapped
\* PRESENT | WRITABLE to phys_start + i * PAGE_SIZE.
AllocatedWell(vm, phys_start, count, a) ==
    /\ a.pages.count = count
    /\ a.pages.start % PAGE_SIZE = 0
    /\ UnitsOf(a.pages.start, a.pages.start + count * PAGE_SIZE)
           \subseteq Covered(vm.free_regions)
    /\ UnitsOf(a.pages.start, a.pages.start + count * PAGE_SIZE)
           \cap Covered(a.vm.free_regions) = {}
    /\ PagesOf(a.pages) \cap DOMAIN vm.mapped = {}
    /\ \A i \in 0..(count - 1) :
           /\ (a.pages.start + i * PAGE_SIZE) \in DOMAIN a.vm.mapped
           /\ a.vm.mapped[a.pages.start + i * PAGE_SIZE]
              = [frame |-> phys_start + i * PAGE_SIZE, flags |-> {"PRESENT", "WRITABLE"}]

\* C24 as stated: a successful allocate(phys_start, page_count) returns
\* page_count pages, aligned, taken from free space and in no free range
\* afterwards, overlapping no live allocation, the i-th page mapped
\* PRESENT | WRITABLE to phys_start + i * S.
C24_AllocateReturnsPageCount ==
    ~panic =>
        \A phys_start \in PhysStarts, page_count \in 0..MaxPageCount :
            VMM_allocate(vmm, phys_start, page_count).some =>
                AllocatedWell(vmm, phys_start, page_count,
                              VMM_allocate(vmm, phys_start, page_count))

\* C24 amended: a successful allocate(phys_start, page_count) returns
\* max(page_count, 1) pages, aligned, taken from free space and in no free
\* range afterwards, overlapping no live allocation, the i-th page mapped
\* PRESENT | WRITABLE to phys_start + i * S.
C24_AllocateReturnsAtLeastOnePage ==
    ~panic =>
        \A phys_start \in PhysStarts, page_count \in 0..MaxPageCount :
            VMM_allocate(vmm, phys_start, page_count).some =>
                AllocatedWell(vmm, phys_start, Max(page_count, 1),
                              VMM_allocate(vmm, phys_start, page_count))

\* C24 witness: with a live allocation of two pages and two free ranges,
\* an allocate of two pages succeeds.
C24_Witness ==
    /\ ~panic
    /\ Cardinality(DOMAIN vmm.free_regions) >= 2
    /\ Cardinality({a \in DOMAIN vmm.mapped : "WRITABLE" \in vmm.mapped[a].flags}) >= 2
    /\ VMM_allocate(vmm, DevicePhysAddr(1), 2).some

\* No free range of the VMM vm fits page_count pages.
NothingFits(vm, page_count) ==
    \A size \in DOMAIN vm.free_regions :
        ~Fits(vm.free_regions, size, Max(page_count, 1) * PAGE_SIZE, PAGE_SIZE)

\* allocate on the VMM vm has answered a: none, with vm as it was.
RefusedUnchanged(vm, a) ==
    /\ ~a.panic
    /\ ~a.some
    /\ a.vm = vm

\* C25: allocate(phys_start, page_count) returns none when phys_start is
\* not aligned to the page size or when no free virtual range fits, and
\* then leaves the free index and the page table as they were.
C25_AllocateRefuses ==
    ~panic =>
        \A phys_start \in PhysStarts, page_count \in 0..MaxPageCount :
            (phys_start % PAGE_SIZE # 0 \/ NothingFits(vmm, page_count))
            => RefusedUnchanged(vmm, VMM_allocate(vmm, phys_start, page_count))

\* Every page of the range is mapped: the range is entirely allocated.
FullyAllocated(vm, pages) == PagesOf(pages) \subseteq DOMAIN vm.mapped

\* deallocate on the VMM vm has answered d: false, with vm as it was.
RejectedUnchanged(vm, d) ==
    /\ ~d.panic
    /\ ~d.ok
    /\ d.vm = vm

\* C26: deallocate(pages) returns false and leaves the state as it was
\* whenever the range is not fully allocated, and returns true only for a
\* range that was entirely allocated.
C26_DeallocateRejectsUnallocated ==
    ~panic =>
        \A pages \in PageRanges, nd \in BOOLEAN :
            /\ ~FullyAllocated(vmm, pages)
               => RejectedUnchanged(vmm, VMM_deallocate(vmm, pages, nd))
            /\ VMM_deallocate(vmm, pages, nd).ok => FullyAllocated(vmm, pages)

(***************************************************************************)
(* The NFIT table (kernel/src/nfit.rs).  The body of the table is a         *)
(* sequence of cells, a cell being the room of one entry structure;         *)
(* offsets and lengths count cells.  A cell holds the header {entry_type,   *)
(* length} of an entry and the fields of its structure:                     *)
(*   SpaRange (0)             index, base, size                            *)
(*   NvdimmRegionMapping (1)  nfit_device_handle, nvdimm_physical_id,       *)
(*                            spa_range_index                              *)
(*   FlushHintAddress (6)     nfit_device_handle,                          *)
(*                            num_of_flush_hint_addresses,                 *)
(*                            flush_hint_addresses                         *)
(* `base` and `size` stand for system_physical_address_range_base and       *)
(* system_physical_address_range_length.                                    *)
(***************************************************************************)
BodyCells == 3
MaxEntryLength == 2

NfitCell(entry_type, length) ==
    [entry_type |-> entry_type, length |-> length, index |-> 0, base |-> 0, size |-> 0,
     nfit_device_handle |-> 0, nvdimm_physical_id |-> 0, spa_range_index |-> 0,
     num_of_flush_hint_addresses |-> 0, flush_hint_addresses |-> << >>]

\* Nfit::entries: the iterator at the start of the body.
Nfit_entries(body) ==
    [body |-> body, pointer |-> 0, remaining_length |-> Len(body), yielded |-> << >>,
     status |-> "running", devices |-> << >>]

\* The match of construct_entry!: the types 0..7 have a variant, 8..=0xffff
\* are reserved and fall through.
IsTyped(entry_type) == entry_type \in 0..7

\* NfitEntryIter::next.  `yielded` collects the offsets of the entries that
\* next returned.  The status becomes "done" when next returns None.
\* remaining_length -= header.length with a length above what remains
\* overflows: the debug build panics ("panic"), the release build wraps and
\* the iterator goes on over the memory behind the table ("overrun"); `wraps`
\* tells which.  An entry of a reserved type and of length 0 keeps the loop
\* of next in place for ever ("spinning").
RECURSIVE NfitEntryIter_next(_, _)
NfitEntryIter_next(it, wraps) ==
    IF it.remaining_length = 0 THEN [it EXCEPT !.status = "done"]
    ELSE IF it.body[it.pointer + 1].length > it.remaining_length
    THEN [it EXCEPT !.status = IF wraps THEN "overrun" ELSE "panic"]
    ELSE IF IsTyped(it.body[it.pointer + 1].entry_type)
    THEN [it EXCEPT !.pointer = @ + it.body[it.pointer + 1].length,
                    !.remaining_length = @ - it.body[it.pointer + 1].length,
                    !.yielded = Append(@, it.pointer)]
    ELSE IF it.body[it.pointer + 1].length = 0
    THEN [it EXCEPT !.status = "spinning"]
    ELSE NfitEntryIter_next([it EXCEPT !.pointer = @ + it.body[it.pointer + 1].length,
                                       !.remaining_length = @ - it.body[it.pointer + 1].length],
                            wraps)

\* The headers that a cell of a table body may hold: a type with a variant,
\* the last such type, a reserved type; a length of 0, of one cell, of more.
IterCells == {NfitCell(t, l) : t \in {0, 7, 8}, l \in 0..MaxEntryLength}

InitEntries ==
    /\ pmems = << >>
    /\ translated = EmptyMap
    /\ vmm = VMM_new(<< >>)
    /\ panic = FALSE
    /\ boots = 0
    /\ nfit \in {Nfit_entries(body) : body \in [1..BodyCells -> IterCells]}
    /\ mem = BlankMemory

\* One turn of `for e in nfit.entries()`: a call of next.  The model follows
\* the loop for one turn more than the body has cells.
NextEntry(wraps) ==
    /\ nfit.status = "running"
    /\ Len(nfit.yielded) < BodyCells + 1
    /\ nfit' = NfitEntryIter_next(nfit, wraps)
    /\ UNCHANGED <<pmems, translated, vmm, panic, boots, mem>>

NextEntries == \E wraps \in BOOLEAN : NextEntry(wraps)

\* A loop over the entries of a table, which calls next until it gets None.
SpecEntries == InitEntries /\ [][NextEntries]_vars /\ WF_vars(NextEntries)

\* The offsets of the entries of a table body: the first cell, and the cell
\* that lies `length` behind an entry, as long as that is in the body.
RECURSIVE EntryOffsets(_, _, _)
EntryOffsets(body, offsets, k) ==
    IF k = 0 THEN offsets \cap 0..(Len(body) - 1)
    ELSE EntryOffsets(body,
                      offsets \cup {o + body[o + 1].length : o \in offsets \cap 0..(Len(body) - 1)},
                      k - 1)

\* A set of offsets in ascending order.
RECURSIVE Ascending(_)
Ascending(offsets) ==
    IF offsets = {} THEN << >>
    ELSE <<SetMin(offsets)>> \o Ascending(offsets \ {SetMin(offsets)})

\* The entries of a type 0..7 of a table body, in table order.
TypedEntries(body) ==
    Ascending({o \in EntryOffsets(body, {0}, Len(body)) : IsTyped(body[o + 1].entry_type)})

\* C29: the iteration over the entries of a table terminates for every
\* table body, an entry of length 0 or of a length above what remains
\* included, and has then yielded every entry of a type 0..7 once, in table
\* order, and none of another type.
C29_IterationTerminates ==
    <>(nfit.status = "done" /\ nfit.yielded = TypedEntries(nfit.body))

(***************************************************************************)
(* get_devices (kernel/src/pmem/device.rs).                                *)
(***************************************************************************)
SpaRangeCell(index, base, size) ==
    [NfitCell(0, 1) EXCEPT !.index = index, !.base = base, !.size = size]
NvdimmRegionMappingCell(handle, physical_id, spa_range_index) ==
    [NfitCell(1, 1) EXCEPT !.nfit_device_handle = handle, !.nvdimm_physical_id = physical_id,
                           !.spa_range_index = spa_range_index]
FlushHintAddressCell(handle, addresses) ==
    [NfitCell(6, 1) EXCEPT !.nfit_device_handle = handle,
                           !.num_of_flush_hint_addresses = Len(addresses),
                           !.flush_hint_addresses = addresses]

\* The entries that nfit.entries() yields on a body on which it comes to an
\* end, as a sequence of cells.
RECURSIVE Entries(_)
Entries(it) ==
    IF it.status = "running" THEN Entries(NfitEntryIter_next(it, FALSE))
    ELSE [k \in 1..Len(it.yielded) |-> it.body[it.yielded[k] + 1]]

\* NfitDevice::default()
DefaultDevice ==
    [handle |-> 0, physical_id |-> 0, phys_addr |-> 0, size |-> 0,
     flush_addresses |-> [some |-> FALSE, addresses |-> << >>]]

\* The first loop of get_devices: spas.entry(e.index).or_insert(e).
RECURSIVE CollectSpas(_, _)
CollectSpas(entries, spas) ==
    IF entries = << >> THEN spas
    ELSE IF Head(entries).entry_type = 0 /\ Head(entries).index \notin DOMAIN spas
    THEN CollectSpas(Tail(entries), MapPut(spas, Head(entries).index, Head(entries)))
    ELSE CollectSpas(Tail(entries), spas)

\* devices.entry(handle).or_insert(NfitDevice::default())
DeviceOf(devices, handle) ==
    IF handle \in DOMAIN devices THEN devices[handle] ELSE DefaultDevice

\* The arm of a region-mapping entry e.
MappedDevice(device, e, spas) ==
    IF e.spa_range_index \in DOMAIN spas
    THEN [device EXCEPT !.handle = e.nfit_device_handle,
                        !.physical_id = e.nvdimm_physical_id,
                        !.phys_addr = spas[e.spa_range_index].base,
                        !.size = spas[e.spa_range_index].size]
    ELSE [device EXCEPT !.handle = e.nfit_device_handle,
                        !.physical_id = e.nvdimm_physical_id]

\* The arm of a flush-hint-address entry e: the addresses at the indexes
\* 1..num_of_flush_hint_addresses (exclusive) of the array, which is 0-based.
FlushedDevice(device, e) ==
    [device EXCEPT !.flush_addresses =
        [some |-> TRUE,
         addresses |-> [i \in 1..(e.num_of_flush_hint_addresses - 1) |->
                           e.flush_hint_addresses[i + 1]]]]

\* The second loop of get_devices.
RECURSIVE CollectDevices(_, _, _)
CollectDevices(entries, spas, devices) ==
    IF entries = << >> THEN devices
    ELSE IF Head(entries).entry_type = 1
    THEN CollectDevices(Tail(entries), spas,
                        MapPut(devices, Head(entries).nfit_device_handle,
                               MappedDevice(DeviceOf(devices, Head(entries).nfit_device_handle),
                                            Head(entries), spas)))
    ELSE IF Head(entries).entry_type = 6
    THEN CollectDevices(Tail(entries), spas,
                        MapPut(devices, Head(entries).nfit_device_handle,
                               FlushedDevice(DeviceOf(devices, Head(entries).nfit_device_handle),
                                             Head(entries))))
    ELSE CollectDevices(Tail(entries), spas, devices)

\* devices.into_values() and sort_unstable_by_key(|d| d.phys_addr): the
\* order of devices of one phys_addr is not specified; with `tie` they keep
\* the order of their keys, without they come in the opposite order.
RECURSIVE SortByPhysAddr(_, _, _)
SortByPhysAddr(devices, keys, tie) ==
    IF keys = {} THEN << >>
    ELSE LET first == CHOOSE k \in keys : \A q \in keys :
                          \/ devices[k].phys_addr < devices[q].phys_addr
                          \/ /\ devices[k].phys_addr = devices[q].phys_addr
                             /\ IF tie THEN k <= q ELSE k >= q
         IN  <<devices[first]>> \o SortByPhysAddr(devices, keys \ {first}, tie)

get_devices(body, tie) ==
    SortByPhysAddr(CollectDevices(Entries(Nfit_entries(body)),
                                  CollectSpas(Entries(Nfit_entries(body)), EmptyMap), EmptyMap),
                   DOMAIN CollectDevices(Entries(Nfit_entries(body)),
                                         CollectSpas(Entries(Nfit_entries(body)), EmptyMap),
                                         EmptyMap),
                   tie)

\* The entries of the tables that get_devices is given: the SPA ranges of
\* the devices, region mappings with an index that an SPA range carries and
\* with one that none carries, flush hints with one address and with two.
FlushHints == <<DevicePhysAddr(1) - PAGE_SIZE, DevicePhysAddr(1) - 2 * PAGE_SIZE>>
DeviceCells ==
    {SpaRangeCell(h, DevicePhysAddr(h), DeviceSize(h)) : h \in Handles}
    \cup {NvdimmRegionMappingCell(h, h, h) : h \in Handles}
    \cup {NvdimmRegionMappingCell(h, h, NumDevices + 1) : h \in Handles}
    \cup {FlushHintAddressCell(1, SubSeq(FlushHints, 1, k)) : k \in 1..2}

InitNfit ==
    /\ pmems = << >>
    /\ translated = EmptyMap
    /\ vmm = VMM_new(<< >>)
    /\ panic = FALSE
    /\ boots = 0
    /\ nfit \in {Nfit_entries(body) : body \in [1..BodyCells -> DeviceCells]}
    /\ mem = BlankMemory

GetDevices(tie) ==
    /\ nfit.status = "running"
    /\ nfit' = [nfit EXCEPT !.devices = get_devices(nfit.body, tie), !.status = "devices"]
    /\ UNCHANGED <<pmems, translated, vmm, panic, boots, mem>>

NextDevices == \E tie \in BOOLEAN : GetDevices(tie)

\* get_devices on any table of well-formed entries.
SpecDevices == InitNfit /\ [][NextDevices]_vars

\* The output devices as a set.
Devices == {nfit.devices[k] : k \in 1..Len(nfit.devices)}
\* The cells of the table body that hold an entry of the type.
CellsOf(entry_type) == {k \in 1..Len(nfit.body) : nfit.body[k].entry_type = entry_type}

\* C27: get_devices omits every device whose region-mapping entry refers
\* to an SPA-range index that no SPA-range entry carries, and each device it
\* returns has the phys_addr and the size of the SPA-range entry that a
\* region mapping of it refers to.
C27_MissingSpaOmitsDevice ==
    nfit.status = "devices" =>
        /\ \A k \in CellsOf(1) :
               (\A j \in CellsOf(0) : nfit.body[j].index # nfit.body[k].spa_range_index)
               => \A d \in Devices : d.handle # nfit.body[k].nfit_device_handle
        /\ \A d \in Devices :
               \E k \in CellsOf(1), j \in CellsOf(0) :
                   /\ nfit.body[k].nfit_device_handle = d.handle
                   /\ nfit.body[j].index = nfit.body[k].spa_range_index
                   /\ d.phys_addr = nfit.body[j].base
                   /\ d.size = nfit.body[j].size

\* C28: for each flush-hint-address entry with k addresses (the last one of
\* its device), the device of the entry's handle that get_devices returns has
\* the list of all k addresses, in table order.
C28_AllFlushHintsAttached ==
    nfit.status = "devices" =>
        \A k \in CellsOf(6) :
            (\A j \in CellsOf(6) :
                 nfit.body[j].nfit_device_handle = nfit.body[k].nfit_device_handle => j <= k)
            => \A d \in Devices :
                   d.handle = nfit.body[k].nfit_device_handle
                   => d.flush_addresses
                      = [some |-> TRUE, addresses |-> nfit.body[k].flush_hint_addresses]

(***************************************************************************)
(* The C-ABI shim (kernel/src/pmem/ffi.rs) over the manager.               *)
(***************************************************************************)
Min(a, b) == IF a <= b THEN a ELSE b

\* fwrite on a file of the pool `name`, after get_pool has answered g: the
\* position of a file stays 0, so the buffer goes to the start of the body,
\* cut to the length of the pool.
FwriteGot(g, buf_size) ==
    IF g.ret.some
    THEN [ret |-> Min(buf_size, g.ret.len),
          state |-> Stored(g.state, g.ret.addr, Min(buf_size, g.ret.len), 1)]
    ELSE [ret |-> 0, state |-> g.state]

fwrite(s, name, buf_size) == FwriteGot(get_pool(s, name), buf_size)

\* truncate after resize_pool has answered r, whose first two components
\* the shim takes as (addr, new_length): buf is [addr, addr + new_length)
\* and extended = &mut buf[length..] is filled with zero and persisted.
TruncateResized(r, length) ==
    IF ~r.ret.some THEN [ret |-> length, state |-> r.state]
    ELSE IF length < r.ret.len
    THEN [ret |-> r.ret.len,
          state |-> Stored(r.state, r.ret.addr + length, r.ret.len - length, 0)]
    ELSE [ret |-> r.ret.len, state |-> r.state]

truncate(s, name, length, nd) == TruncateResized(resize_pool(s, name, length, nd), length)

Fwrite(name, buf_size) ==
    /\ ~panic
    /\ Returns(fwrite(St, name, buf_size).state)

Truncate(name, length, nd) ==
    /\ ~panic
    /\ Returns(truncate(St, name, length, nd).state)

\* The shim is followed on the files of one name.
FileNames == {"a"}

NextFile ==
    \/ \E name \in FileNames, size \in Sizes : CreatePool(name, size)
    \/ \E name \in FileNames, nd \in BOOLEAN : DestroyPool(name, nd)
    \/ \E name \in FileNames, buf_size \in Sizes : Fwrite(name, buf_size)
    \/ \E name \in FileNames, length \in Sizes, nd \in BOOLEAN : Truncate(name, length, nd)

\* Pools that are created, written, truncated and destroyed.
SpecFile == Init /\ [][NextFile]_vars

\* The body of a pool, which get_pool answered g0 for before a truncate to
\* `length` and g1 after it, has grown from old_len: the bytes of
\* [old_len, length) read zero and the bytes of [0, old_len) read as before.
GrownZeroFilled(g0, g1, old_len, length) ==
    /\ g1.ret.some
    /\ ~Faults(g1.state.vmm, UnitsFrom(g1.ret.addr, length))
    /\ \A u \in UnitsFrom(g1.ret.addr + old_len, length - old_len) : Load(g1.state, u) = 0
    /\ \A i \in 0..(old_len \div HalfPage - 1) :
           Load(g1.state, g1.ret.addr + i * HalfPage) = Load(g0.state, g0.ret.addr + i * HalfPage)

\* truncate(name, length) on the manager s, of a pool that get_pool answers
\* g0 for, has answered t.
TruncatedWell(s, g0, t, name, length) ==
    IF length > g0.ret.len
    THEN GrownZeroFilled(g0, get_pool(t.state, name), g0.ret.len, length)
    ELSE t.state.mem = s.mem

\* C30: after a truncate(name, length) that grows the pool from old_len to
\* new_len every body byte in [old_len, new_len) reads zero and the bytes in
\* [0, old_len) are unchanged, and a truncate with a length at or below
\* old_len changes no body byte.
C30_TruncateZeroFillsTail ==
    ~panic =>
        \A name \in FileNames, length \in Sizes, nd \in BOOLEAN :
            (/\ get_pool(St, name).ret.some
             /\ resize_pool(St, name, length, nd).ret.some
             /\ ~resize_pool(St, name, length, nd).state.panic)
            => TruncatedWell(St, get_pool(St, name), truncate(St, name, length, nd),
                             name, length)

(***************************************************************************)
(* Pool lifecycle.                                                         *)
(***************************************************************************)
\* The manager t after destroy_pool(name) has no pool of that name, no cache
\* entry for the offset the pool had, and the pages the pool was mapped to
\* are unmapped and lie in a free range of the VMM.
DestroyedWell(t, name, offset, pages) ==
    /\ ~get_pool(t, name).ret.some
    /\ offset \notin DOMAIN t.translated
    /\ \A a \in PagesOf(pages) :
           /\ a \notin DOMAIN t.vmm.mapped
           /\ UnitsOf(a, a + PAGE_SIZE) \subseteq Covered(t.vmm.free_regions)

\* destroy_pool has answered d for the pool that the lookup by name found as f
\* in the manager s.
DestroyedMapped(s, f, d, name) ==
    (f.some /\ f.inner.offset \in DOMAIN s.translated /\ d.ret /\ ~d.state.panic)
    => DestroyedWell(d.state, name, f.inner.offset, s.translated[f.inner.offset].pages)

\* C31: after destroy_pool(n) has returned true for a pool whose body was
\* mapped, get_pool(n) returns none, the mapping cache has no entry for the
\* pool's former offset, and the pool's former virtual pages are unmapped and
\* free in the index of the VMM.
C31_DestroyReleasesMapping ==
    ~panic =>
        \A name \in Names, nd \in BOOLEAN :
            DestroyedMapped(St, FindPoolFrom(St, 1, name), destroy_pool(St, name, nd), name)

\* Table::deallocate(index) on the table t has answered d: for a slot that is
\* not live, or an index behind the array, the answer is false and the table
\* is as it was; the table has changed only for a live slot.
DeallocatedOnlyLive(t, index, d) ==
    /\ (index >= ENTRY_COUNT \/ ~IsLive(t.inner.entries[index + 1]))
           => (~d.panic /\ ~d.ok /\ d.table = t)
    /\ (d.ok \/ d.table # t)
           => (index < ENTRY_COUNT /\ IsLive(t.inner.entries[index + 1]))

\* C32: Table::deallocate(index) returns false and changes neither the free
\* index nor any entry when the slot is not live or the index is out of
\* range; it releases a range and zeroes a slot only for a live slot.
C32_DeallocateRejectsDeadSlot ==
    ~panic =>
        \A h \in 1..Len(pmems), index \in 0..ENTRY_COUNT, nd \in BOOLEAN :
            DeallocatedOnlyLive(pmems[h], index, Table_deallocate(pmems[h], index, nd))

\* destroy_pool and resize_pool have returned d and r: neither has panicked.
BothReturn(d, r) == ~d.state.panic /\ ~r.state.panic

\* C33: no sequence of create_pool, get_pool, destroy_pool and resize_pool
\* (pools of size 0, as fopen creates them, included) makes reserve_range or
\* release_range fail its "size must be non-zero" assertion: destroy_pool
\* and resize_pool of an existing pool return a result and do not panic.
C33_NoZeroSizeAssertion ==
    ~panic =>
        \A name \in Names, new_size \in Sizes, nd \in BOOLEAN :
            HasPool(St, name)
            => BothReturn(destroy_pool(St, name, nd), resize_pool(St, name, new_size, nd))

(***************************************************************************)
(* Power loss during resize_pool.                                          *)
(***************************************************************************)
\* The first len bytes of the body at `offset` of the device h, as the
\* device holds them in m (-1 for a byte that no device holds).
BodyOf(m, h, offset, len) ==
    [i \in 0..(len \div HalfPage - 1) |->
        IF DevicePhysAddr(h) + offset + i * HalfPage \in DOMAIN m
        THEN m[DevicePhysAddr(h) + offset + i * HalfPage] ELSE -1]

\* The bodies a device may hold when power is lost while resize_pool takes
\* the manager from s to t: copy_from_slice has not begun, or it has
\* completed and reached the device.
ResizeCrashMems(s, t) == {s.mem, t.mem}

\* The boot b after the power loss, on bodies m, finds the pool as it was in
\* s (found as `old`) or as resize_pool has left it in t (found as `new`),
\* with the bytes the pool held in s.
RecoveredOldOrNew(b, m, s, old, new, got) ==
    /\ ~b.panic
    /\ got.some
    /\ \/ /\ got.handle = old.handle
          /\ got.inner = old.inner
          /\ BodyOf(m, got.handle, got.inner.offset, old.inner.length)
                 = BodyOf(s.mem, old.handle, old.inner.offset, old.inner.length)
       \/ /\ got.handle = new.handle
          /\ got.inner = new.inner
          /\ BodyOf(m, got.handle, got.inner.offset, old.inner.length)
                 = BodyOf(s.mem, old.handle, old.inner.offset, old.inner.length)

\* Every boot after a power loss during the resize_pool that has taken s to
\* r.state recovers the pool.
ResizeIsAtomic(s, r, name) ==
    \A pages \in CrashPages(s, r.state), m \in ResizeCrashMems(s, r.state) :
        RecoveredOldOrNew(Boot(pages, TRUE), m, s, FindPoolFrom(s, 1, name),
                          FindPoolFrom(r.state, 1, name),
                          FindPoolFrom(Boot(pages, TRUE), 1, name))

\* C34: when power is lost during a growing resize_pool(n, new_size), the
\* boot that follows finds the pool n either in its old state (old offset,
\* old length, old body bytes) or in its new state (new offset, new length,
\* the first old_len body bytes equal to the old body).
C34_ResizeIsPowerLossAtomic ==
    ~panic =>
        \A name \in FileNames, new_size \in Sizes, nd \in BOOLEAN :
            (/\ HasPool(St, name)
             /\ real_len(EntryOf(St, name)) < new_size
             /\ resize_pool(St, name, new_size, nd).ret.some
             /\ ~resize_pool(St, name, new_size, nd).state.panic)
            => ResizeIsAtomic(St, resize_pool(St, name, new_size, nd), name)

(***************************************************************************)
(* The steps of a growing resize_pool, one manager per step.               *)
(***************************************************************************)
\* ll::persist_obj(obj, true) flushes the bytes that the object `obj`
\* occupies.  A slice lies at its addresses; a reference to a slice is a
\* local of the caller (a pointer and a length on the kernel stack) and
\* occupies no byte of a device.
SliceAt(addr, len) == UnitsFrom(addr, len)
ReferenceTo(slice) == {}
persist_obj(obj) == obj

\* The managers of the growing branch: `evicted` after
\* translated.remove(&old_offset), `mapped` after the second
\* ensure_pool_is_mapped_if_existent, `copied` after to.copy_from_slice(from),
\* `flushed` the addresses covered by ll::persist_obj(&to, true), `unmapped`
\* after deallocate(old_pages).
GrowUnmapped(evicted, mapped, copied, old_pages, new_pages, old, u) ==
    [some |-> TRUE, evicted |-> evicted, mapped |-> mapped, copied |-> copied,
     flushed |-> persist_obj(ReferenceTo(SliceAt(new_pages.start, real_len(old)))),
     unmapped |-> [copied EXCEPT !.vmm = u.vm, !.panic = copied.panic \/ u.panic],
     old_pages |-> old_pages, new_pages |-> new_pages, old |-> old]

GrowCopied(evicted, mapped, g, old_pages, old, nd) ==
    IF g.some /\ g.entry.offset \in DOMAIN mapped.translated
    THEN GrowUnmapped(evicted, mapped,
                      Copied(mapped, old_pages.start,
                             mapped.translated[g.entry.offset].pages.start, real_len(old)),
                      old_pages, mapped.translated[g.entry.offset].pages, old,
                      VMM_deallocate(mapped.vmm, old_pages, nd))
    ELSE [some |-> FALSE]

GrowMapped(evicted, e, old_pages, old, nd) ==
    IF ~e.some THEN [some |-> FALSE]
    ELSE GrowCopied(evicted, e.state, Table_get(e.state.pmems[e.handle], e.index),
                    old_pages, old, nd)

GrowEvicted(s, h, old, r, name, nd) ==
    IF r.panic \/ ~r.ok \/ old.offset \notin DOMAIN s.translated THEN [some |-> FALSE]
    ELSE GrowMapped([s EXCEPT !.pmems[h] = r.table,
                              !.translated = MapDel(s.translated, old.offset)],
                    ensure_pool_is_mapped_if_existent(
                        [s EXCEPT !.pmems[h] = r.table,
                                  !.translated = MapDel(s.translated, old.offset)], name),
                    s.translated[old.offset].pages, old, nd)

GrowEntry(s, h, index, g, name, new_size, nd) ==
    IF g.some /\ real_len(g.entry) < new_size
    THEN GrowEvicted(s, h, g.entry, Table_reallocate(s.pmems[h], index, new_size, nd),
                     name, nd)
    ELSE [some |-> FALSE]

GrowEnsured(e, name, new_size, nd) ==
    IF ~e.some THEN [some |-> FALSE]
    ELSE GrowEntry(e.state, e.handle, e.index,
                   Table_get(e.state.pmems[e.handle], e.index), name, new_size, nd)

resize_pool_steps(s, name, new_size, nd) ==
    GrowEnsured(ensure_pool_is_mapped_if_existent(s, name), name, new_size, nd)

\* The steps k of a growing resize_pool came in the order of the claim.
GrowsInOrder(k) ==
    \* the old mapping is evicted, then the new body is mapped
    /\ k.old.offset \notin DOMAIN k.evicted.translated
    /\ PagesOf(k.new_pages) \subseteq DOMAIN k.mapped.vmm.mapped
    \* the copy reads the old pages, which are still mapped, and no page of
    \* the old range is unmapped by then
    /\ PagesOf(k.old_pages) \subseteq DOMAIN k.mapped.vmm.mapped
    /\ PagesOf(k.old_pages) \subseteq DOMAIN k.copied.vmm.mapped
    /\ ~k.copied.panic
    /\ \A i \in 0..(real_len(k.old) \div HalfPage - 1) :
           Load(k.copied, k.new_pages.start + i * HalfPage)
               = Load(k.mapped, k.old_pages.start + i * HalfPage)
    \* the barrier covers the destination of the copy
    /\ SliceAt(k.new_pages.start, real_len(k.old)) \subseteq k.flushed
    \* and only then is the old range unmapped
    /\ ~k.unmapped.panic
    /\ PagesOf(k.old_pages) \cap DOMAIN k.unmapped.vmm.mapped = {}

\* C35: in a growing resize_pool the old body's mapping is evicted from the
\* cache, the new body is mapped, old_real_len bytes are copied from the old
\* mapping to the new, a durability barrier covering the copied destination
\* bytes is issued, and only then is the old virtual range unmapped.
C35_GrowingResizeOrder ==
    ~panic =>
        \A name \in FileNames, new_size \in Sizes, nd \in BOOLEAN :
            resize_pool_steps(St, name, new_size, nd).some
            => GrowsInOrder(resize_pool_steps(St, name, new_size, nd))

(***************************************************************************)
(* Table::reallocate.                                                      *)
(***************************************************************************)
\* Table::reallocate(index, new_size) on the table t has answered r: after
\* true the new interval has no byte in common with the interval the entry
\* had, after false the table is as it was.
ReallocatedApart(t, index, new_size, r) ==
    /\ (r.ok /\ ~r.panic)
           => Disjoint(<<r.table.inner.entries[index + 1].offset,
                         r.table.inner.entries[index + 1].offset + Max(new_size, PAGE_SIZE)>>,
                       IntervalOf(t.inner.entries[index + 1]))
    /\ (~r.ok /\ ~r.panic) => r.table = t

\* C36: in a successful Table::reallocate the new range is reserved while
\* the old one is still reserved, so the new interval [new_offset,
\* new_offset + max(new_size, PAGE_SIZE)) has no byte in common with the old
\* interval [offset, offset + real_len); when reallocate returns false
\* neither the entry nor the free index has changed.
C36_ReallocateKeepsOldApart ==
    ~panic =>
        \A h \in 1..Len(pmems), index \in 0..ENTRY_COUNT, new_size \in Sizes, nd \in BOOLEAN :
            ReallocatedApart(pmems[h], index, new_size,
                             Table_reallocate(pmems[h], index, new_size, nd))

\* C36 witness: reallocate has moved a live entry (its offset is no longer
\* the persisted one), and on the tables reached a reallocate of a live
\* entry is refused because the real length covers the request, and is
\* refused because no free range fits.
C36_Witness ==
    /\ ~panic
    /\ \E h \in 1..Len(pmems), i \in 1..ENTRY_COUNT :
           /\ IsLive(pmems[h].inner.entries[i])
           /\ pmems[h].nv.entries[i].name = pmems[h].inner.entries[i].name
           /\ pmems[h].nv.entries[i].offset # pmems[h].inner.entries[i].offset
    /\ \E h \in 1..Len(pmems), i \in 1..ENTRY_COUNT, nd \in BOOLEAN :
           /\ IsLive(pmems[h].inner.entries[i])
           /\ real_len(pmems[h].inner.entries[i]) = PAGE_SIZE
           /\ ~Table_reallocate(pmems[h], i - 1, PAGE_SIZE, nd).ok
           /\ ~Table_reallocate(pmems[h], i - 1, PAGE_SIZE, nd).panic
    /\ \E h \in 1..Len(pmems), i \in 1..ENTRY_COUNT, nd \in BOOLEAN :
           /\ IsLive(pmems[h].inner.entries[i])
           /\ real_len(pmems[h].inner.entries[i]) = PAGE_SIZE
           /\ ~reserve_range(pmems[h].free_regions, PAGE_SIZE + HalfPage, PAGE_SIZE).some
           /\ ~Table_reallocate(pmems[h], i - 1, PAGE_SIZE + HalfPage, nd).ok
           /\ ~Table_reallocate(pmems[h], i - 1, PAGE_SIZE + HalfPage, nd).panic

(***************************************************************************)
(* Idempotence of the mapping.                                             *)
(***************************************************************************)
\* get_pool(n) has answered g1; then an operation that is no destroy_pool or
\* resize_pool of n has left the manager x; then get_pool(n) has answered
\* g2: the same (addr, len), with the index and the page table of the VMM
\* and the mapping cache as in x.
MappedOnce(g1, x, g2) ==
    (g1.ret.some /\ ~g1.state.panic /\ ~x.panic)
    => /\ g2.ret = g1.ret
       /\ ~g2.state.panic
       /\ g2.state.vmm = x.vmm
       /\ g2.state.translated = x.translated

\* C37: repeated get_pool(n) calls with no destroy_pool or resize_pool of n
\* in between all return the same (addr, len), and every call after the
\* first leaves the free index of the VMM, the page table and the mapping
\* cache unchanged; in between there is nothing, or a get_pool, create_pool,
\* destroy_pool or resize_pool of another name m.
C37_GetPoolIsIdempotent ==
    ~panic =>
        \A n \in Names :
            /\ MappedOnce(get_pool(St, n), get_pool(St, n).state,
                          get_pool(get_pool(St, n).state, n))
            /\ \A m \in Names \ {n} :
                   /\ MappedOnce(get_pool(St, n), get_pool(get_pool(St, n).state, m).state,
                                 get_pool(get_pool(get_pool(St, n).state, m).state, n))
                   /\ \A size \in Sizes :
                          MappedOnce(get_pool(St, n),
                                     create_pool(get_pool(St, n).state, m, size).state,
                                     get_pool(create_pool(get_pool(St, n).state, m, size).state, n))
                   /\ \A nd \in BOOLEAN :
                          MappedOnce(get_pool(St, n),
                                     destroy_pool(get_pool(St, n).state, m, nd).state,
                                     get_pool(destroy_pool(get_pool(St, n).state, m, nd).state, n))
                   /\ \A size \in Sizes, nd \in BOOLEAN :
                          MappedOnce(get_pool(St, n),
                                     resize_pool(get_pool(St, n).state, m, size, nd).state,
                                     get_pool(resize_pool(get_pool(St, n).state, m, size, nd).state, n))

(***************************************************************************)
(* reserve_range as a contract (vmem.rs 160-186).  FittingSizes are the    *)
(* keys of the free index whose range holds the request after aligning its *)
(* start; HeadPadding is the part of the range before the aligned start.   *)
(***************************************************************************)
FittingSizes(fr, needed, alignment) ==
    {size \in DOMAIN fr : Fits(fr, size, needed, alignment)}

HeadPadding(fr, size, alignment) == align_up(fr[size], alignment) - fr[size]

ReservedSmallest(fr, needed, alignment, r) ==
    /\ r.some <=> FittingSizes(fr, needed, alignment) # {}
    /\ r.some =>
         /\ r.start = align_up(fr[SetMin(FittingSizes(fr, needed, alignment))],
                               alignment)
         /\ r.end = r.start + needed

ReinsertedAround(fr, needed, alignment, r, size) ==
    /\ HeadPadding(fr, size, alignment) > 0 =>
         <<fr[size], r.start>> \in FreeRanges(r.free)
    /\ size - needed - HeadPadding(fr, size, alignment) > 0 =>
         <<r.end, fr[size] + size>> \in FreeRanges(r.free)

ReservedWell(fr, needed, alignment, r) ==
    /\ ReservedSmallest(fr, needed, alignment, r)
    /\ r.some => ReinsertedAround(fr, needed, alignment, r,
                                  SetMin(FittingSizes(fr, needed, alignment)))

ReserveRequests == {k * HalfPage : k \in 1..4}

FreeIndexes ==
    {pmems[h].free_regions : h \in 1..Len(pmems)} \cup {vmm.free_regions}

(* the hole of a destroyed 1-page pool is where the next 1-page pool goes *)
HoleReused(s, n, d, m, c) ==
    (/\ HasPool(s, n)
     /\ real_len(EntryOf(s, n)) = PAGE_SIZE
     /\ d.ret /\ ~d.state.panic
     /\ c.ret.some /\ ~c.state.panic)
        => EntryOf(c.state, m).offset = EntryOf(s, n).offset

(* C38: reserve_range picks the free range of smallest size that holds the *)
(* request after alignment, returns [align_up(start), align_up(start) +    *)
(* needed), leaves the head padding and the tail remainder in the free     *)
(* index, and so the 1-page hole left by destroy_pool is where the next    *)
(* 1-page create_pool is placed.                                           *)
C38_ReserveSmallestFit ==
    ~panic =>
      /\ \A fr \in FreeIndexes, needed \in ReserveRequests :
            ReservedWell(fr, needed, PAGE_SIZE,
                         reserve_range(fr, needed, PAGE_SIZE))
      /\ \A n \in Names, m \in Names, size \in {HalfPage, PAGE_SIZE},
            nd \in BOOLEAN :
            HoleReused(St, n, destroy_pool(St, n, nd), m,
                       create_pool(destroy_pool(St, n, nd).state, m, size))

(***************************************************************************)
(* The kernel builds the VMM (main.rs 77-100): it walks the page table it  *)
(* was booted with, folds the mapped pages into regions, takes the holes   *)
(* between them as usable and hands those to Manager::new.                 *)
(***************************************************************************)
OutsidePages == 2

\* get_mappings: the mapped pages of the page table in the order of the
\* walk, by ascending virtual address, as <<start, end>> of each page.
RECURSIVE MappingsFrom(_, _)
MappingsFrom(pages, res) ==
    IF pages = {} THEN res
    ELSE MappingsFrom(pages \ {SetMin(pages)},
                      Append(res, <<SetMin(pages), SetMin(pages) + PAGE_SIZE>>))

get_mappings(mapped) == MappingsFrom(DOMAIN mapped, << >>)

\* MappedRegions::into_regions: a mapping that starts where the last region
\* ends extends that region, any other starts a new region.
RECURSIVE RegionsFrom(_, _)
RegionsFrom(mappings, acc) ==
    IF mappings = << >> THEN acc
    ELSE IF acc # << >> /\ acc[Len(acc)][2] = Head(mappings)[1]
    THEN RegionsFrom(Tail(mappings),
                     [acc EXCEPT ![Len(acc)] = <<acc[Len(acc)][1], Head(mappings)[2]>>])
    ELSE RegionsFrom(Tail(mappings), Append(acc, Head(mappings)))

into_regions(mappings) == RegionsFrom(mappings, << >>)

\* The pages the boot loader may have mapped: any of the address space and
\* of the pages just below FIRST_ADDRESS and from LAST_ADDRESS on.
BootPages ==
    {FIRST_ADDRESS + i * PAGE_SIZE : i \in (0 - OutsidePages)..(VirtPages + OutsidePages - 1)}

InitKernel ==
    /\ pmems = << >>
    /\ translated = EmptyMap
    /\ \E pages \in SUBSET BootPages :
           vmm = [free_regions |-> EmptyMap,
                  mapped |-> [a \in pages |-> [frame |-> a, flags |-> {"PRESENT"}]]]
    /\ panic = FALSE
    /\ boots = 0
    /\ nfit = NoNfit
    /\ mem = BlankMemory

\* kernel_main up to Manager::new.
KernelMain ==
    /\ boots = 0
    /\ vmm' = [VMM_new(into_usable(into_regions(get_mappings(vmm.mapped))))
                  EXCEPT !.mapped = vmm.mapped]
    /\ boots' = 1
    /\ UNCHANGED <<pmems, translated, panic, nfit, mem>>

NextKernel == KernelMain

\* The VMM as the kernel builds it over any page table of the boot loader.
SpecKernel == InitKernel /\ [][NextKernel]_vars

InsideAddressSpace(r) == FIRST_ADDRESS <= r[1] /\ r[2] <= LAST_ADDRESS

OverlapsNoMapping(vm, r) ==
    \A a \in DOMAIN vm.mapped : Disjoint(r, <<a, a + PAGE_SIZE>>)

UnmappedIsFree(vm) ==
    \A i \in 0..(VirtPages - 1) :
        (FIRST_ADDRESS + i * PAGE_SIZE) \notin DOMAIN vm.mapped
            => \E r \in FreeRanges(vm.free_regions) :
                   /\ r[1] <= FIRST_ADDRESS + i * PAGE_SIZE
                   /\ FIRST_ADDRESS + (i + 1) * PAGE_SIZE <= r[2]

\* C39: the free ranges that the VMM starts with are [FIRST_ADDRESS,
\* LAST_ADDRESS) minus the mapped regions: each lies inside that interval,
\* overlaps no mapped region, and every unmapped address of the interval is
\* in one of them, also when a region starts below FIRST_ADDRESS or lies at
\* or above LAST_ADDRESS.
C39_InitialFreeIsComplement ==
    boots = 1 =>
        /\ \A r \in FreeRanges(vmm.free_regions) :
               InsideAddressSpace(r) /\ OverlapsNoMapping(vmm, r)
        /\ UnmappedIsFree(vmm)

\* The VMM has no free range that holds `needed` bytes of pages.
VmmExhausted(s, needed) ==
    needed > 0 /\ FittingSizes(s.vmm.free_regions, needed, PAGE_SIZE) = {}

\* create_pool of a name that is not live, when the body cannot be mapped.
CreateReportsNone(s, name, size, c) ==
    (/\ ~HasPool(s, name)
     /\ VmmExhausted(s, align_up(Max(size, 1), PAGE_SIZE)))
        => /\ ~c.state.panic
           /\ ~c.ret.some
           /\ ~HasPool(c.state, name)

\* get_pool of a live pool that is not in the cache, when the body cannot
\* be mapped.
GetReportsNone(s, f, g) ==
    (/\ f.some
     /\ f.inner.offset \notin DOMAIN s.translated
     /\ VmmExhausted(s, real_len(f.inner)))
        => ~g.state.panic /\ ~g.ret.some

\* C40: when the VMM has no free virtual range for the body of the pool,
\* create_pool and get_pool return none and do not abort, and the
\* create_pool that returned none left no live entry of that name.
C40_VmmExhaustionReportsNone ==
    ~panic =>
      /\ \A name \in Names, size \in Sizes :
            CreateReportsNone(St, name, size, create_pool(St, name, size))
      /\ \A name \in Names :
            GetReportsNone(St, FindPoolFrom(St, 1, name), get_pool(St, name))

====
